---- MODULE Spec2Model ----
(***************************************************************************)
(* A model of the EVM core of loriopatrick/evm: the inner Machine opcodes  *)
(* of core/src/eval/misc.rs, the frame they run in, and the Runtime that   *)
(* traps external opcodes through the Handler.                             *)
(*                                                                         *)
(* A word on the stack is an H256: a tuple of 32 bytes, most significant   *)
(* first.  A U256 is kept as its 32 base-256 digits, least significant     *)
(* first, so that U256::from_big_endian and the conversion back to H256    *)
(* are real conversions and every comparison and addition is exact.        *)
(***************************************************************************)
EXTENDS Integers, Sequences, FiniteSets, TLC

\* ------------------------------------------------------------- bounds
\* The per-frame memory cap, in bytes.
MemoryLimit == 96
\* How often a frozen Machine is stepped again after it exited.
MaxResteps == 2
\* How many interrupted frames the host keeps at once.
MaxDepth == 2
\* How many apply calls a backend takes.
MaxApplies == 2

\* -------------------------------------------------- program constants
WordBytes == 32
UsizeBytes == 8
StackLimit == 1024
\* How many blocks back of the current one block_hash is to answer for.
HashWindow == 256

\* --------------------------------------------------------------- bytes
Zeros(n) == [i \in 1..n |-> 0]

Reverse(s) == [i \in 1..Len(s) |-> s[Len(s) + 1 - i]]

Min(a, b) == IF a < b THEN a ELSE b

Max(a, b) == IF a > b THEN a ELSE b

\* ---------------------------------------------------------------- U256
\* U256::from_big_endian(slice), for a slice of at most 32 bytes: the last
\* byte of the slice is the least significant digit.
U256_from_big_endian(bytes) == Reverse(bytes) \o Zeros(WordBytes - Len(bytes))

\* U256::from(n) for a machine integer n of the model (n < 2^31).
U256_from_usize(n) ==
  [i \in 1..WordBytes |-> IF i <= 4 THEN (n \div (256 ^ (i - 1))) % 256 ELSE 0]

\* The H256 of a U256 (push_u256!): its big-endian bytes.
H256_from_U256(u) == Reverse(u)

U256_zero == Zeros(WordBytes)

U256_one == U256_from_usize(1)

\* U256::from(usize::max_value()) on a 64-bit target.
USIZE_MAX == [i \in 1..WordBytes |-> IF i <= UsizeBytes THEN 255 ELSE 0]

\* a < b, from the most significant digit down.
U256_lt(a, b) ==
  \E i \in 1..WordBytes :
    /\ a[i] < b[i]
    /\ \A j \in (i + 1)..WordBytes : a[j] = b[j]

U256_gt(a, b) == U256_lt(b, a)

U256_le(a, b) == ~U256_lt(b, a)

\* a.checked_add(b): [overflow, value], value the sum modulo 2^256.
U256_checked_add(a, b) ==
  LET carry[i \in 0..WordBytes] ==
        IF i = 0 THEN 0 ELSE (a[i] + b[i] + carry[i - 1]) \div 256
  IN  [overflow |-> carry[WordBytes] = 1,
       value |-> [i \in 1..WordBytes |-> (a[i] + b[i] + carry[i - 1]) % 256]]

\* Whether u.as_usize() returns: it panics on a value above usize::MAX.
U256_fits_usize(u) == U256_le(u, USIZE_MAX)

\* Whether a U256 is below 2^24: every length of the model is.
U256_small(u) == \A i \in 4..WordBytes : u[i] = 0

\* u.as_usize() for a value below 2^24.
U256_as_usize(u) == u[1] + 256 * u[2] + 65536 * u[3]

\* u < n for a length n of the model (a code, data or memory length).
U256_lt_len(u, n) == U256_small(u) /\ U256_as_usize(u) < n

\* u <= n for a length n of the model.
U256_le_len(u, n) == U256_small(u) /\ U256_as_usize(u) <= n

\* value.low_u32() & 0xff
U256_low_byte(u) == u[1]

\* ------------------------------------------------------------- Control
\* No Control at all: the opcode panicked, and the process with it.
Panic == [kind |-> "Panic", n |-> 0, reason |-> "Panic"]

Continue(n) == [kind |-> "Continue", n |-> n, reason |-> "None"]

Jump(dest) == [kind |-> "Jump", n |-> dest, reason |-> "None"]

Exit(reason) == [kind |-> "Exit", n |-> 0, reason |-> reason]

\* --------------------------------------------------------------- Stack
\* The top of the stack is the last element.
Stack_pop(stack) ==
  IF Len(stack) = 0
  THEN [ok |-> FALSE, err |-> "Error::StackUnderflow", value |-> Zeros(WordBytes), stack |-> stack]
  ELSE [ok |-> TRUE, err |-> "None", value |-> stack[Len(stack)],
        stack |-> SubSeq(stack, 1, Len(stack) - 1)]

Stack_push(stack, value) ==
  IF Len(stack) + 1 > StackLimit
  THEN [ok |-> FALSE, err |-> "Error::StackOverflow", stack |-> stack]
  ELSE [ok |-> TRUE, err |-> "None", stack |-> Append(stack, value)]

Stack_peek(stack, no_from_top) ==
  IF Len(stack) > no_from_top
  THEN [ok |-> TRUE, err |-> "None", value |-> stack[Len(stack) - no_from_top]]
  ELSE [ok |-> FALSE, err |-> "Error::StackUnderflow", value |-> Zeros(WordBytes)]

Stack_set(stack, no_from_top, val) ==
  IF Len(stack) > no_from_top
  THEN [ok |-> TRUE, err |-> "None",
        stack |-> [stack EXCEPT ![Len(stack) - no_from_top] = val]]
  ELSE [ok |-> FALSE, err |-> "Error::StackUnderflow", stack |-> stack]

\* -------------------------------------------------------------- Memory
\* A memory is [data, effective_len, limit]; data holds effective_len bytes.
Memory_new(limit) == [data |-> <<>>, effective_len |-> 0, limit |-> limit]

\* The next multiple of 32 at or above n.
RoundUp32(n) == ((n + 31) \div 32) * 32

\* memory.resize_offset(offset, len): cover [offset, offset + len).
Memory_resize_offset(memory, offset, len) ==
  IF len = U256_zero
  THEN [ok |-> TRUE, err |-> "None", memory |-> memory]
  ELSE LET end == U256_checked_add(offset, len)
       IN  IF \/ end.overflow
              \/ U256_gt(end.value, USIZE_MAX)
              \/ ~U256_le_len(end.value, memory.limit)
           THEN [ok |-> FALSE, err |-> "Fatal::NotSupported", memory |-> memory]
           ELSE LET new_len == Max(memory.effective_len,
                                   RoundUp32(U256_as_usize(end.value)))
                IN  [ok |-> TRUE, err |-> "None",
                     memory |-> [memory EXCEPT
                       !.effective_len = new_len,
                       !.data = memory.data \o Zeros(new_len - Len(memory.data))]]

\* memory.get(offset, size): size bytes, zero beyond the effective length.
Memory_get(memory, offset, size) ==
  [i \in 1..size |->
     IF offset + i <= Len(memory.data) THEN memory.data[offset + i] ELSE 0]

\* memory.set(offset, value, Some(target_size)): write exactly target_size
\* bytes, value zero-padded on the right; never expands the memory.
Memory_set(memory, offset, value, target_size) ==
  IF offset + target_size > Len(memory.data)
  THEN [ok |-> FALSE, err |-> "Fatal::NotSupported", memory |-> memory]
  ELSE [ok |-> TRUE, err |-> "None",
        memory |-> [memory EXCEPT !.data =
          [i \in 1..Len(memory.data) |->
             IF i > offset /\ i <= offset + target_size
             THEN (IF i - offset <= Len(value) THEN value[i - offset] ELSE 0)
             ELSE memory.data[i]]]]

\* memory.copy_large(memory_offset, data_offset, len, data): copy len bytes
\* of data from data_offset, zero where the source range passes its end.
Memory_copy_large(memory, memory_offset, data_offset, len, data) ==
  IF len = U256_zero
  THEN [ok |-> TRUE, err |-> "None", memory |-> memory]
  ELSE IF ~U256_small(memory_offset) \/ ~U256_small(len)
  THEN [ok |-> FALSE, err |-> "Fatal::NotSupported", memory |-> memory]
  ELSE LET ulen == U256_as_usize(len)
           src == [i \in 1..ulen |->
                     LET p == U256_checked_add(data_offset, U256_from_usize(i - 1))
                     IN  IF ~p.overflow /\ U256_lt_len(p.value, Len(data))
                         THEN data[U256_as_usize(p.value) + 1]
                         ELSE 0]
       IN  Memory_set(memory, U256_as_usize(memory_offset), src, ulen)

\* -------------------------------------------------------------- Valids
\* The number of immediate bytes of the opcode byte b: n for PUSHn.
PushLen(b) == IF b >= 96 /\ b <= 127 THEN b - 95 ELSE 0

\* Valids::new(code): one left-to-right scan, skipping n bytes after PUSHn.
RECURSIVE Valids_scan(_, _, _)
Valids_scan(code, i, valids) ==
  IF i >= Len(code)
  THEN valids
  ELSE LET opcode == code[i + 1]
       IN  IF opcode = 91
           THEN Valids_scan(code, i + 1, [valids EXCEPT ![i + 1] = TRUE])
           ELSE Valids_scan(code, i + 1 + PushLen(opcode), valids)

Valids_new(code) == Valids_scan(code, 0, [i \in 1..Len(code) |-> FALSE])

\* valids.is_valid(position), for a usize position kept as a U256.
Valids_is_valid(valids, position) ==
  IF ~U256_lt_len(position, Len(valids))
  THEN FALSE
  ELSE valids[U256_as_usize(position) + 1]

\* ------------------------------------------------------- eval macros
Result(state, control) == [state |-> state, control |-> control]

\* pop!(state, x1, .., xk): k pops in turn; the first failing pop returns
\* its error, and what was popped before it stays popped.
RECURSIVE pop_n(_, _)
pop_n(stack, k) ==
  IF k = 0
  THEN [ok |-> TRUE, err |-> "None", values |-> <<>>, stack |-> stack]
  ELSE LET p == Stack_pop(stack)
       IN  IF ~p.ok
           THEN [ok |-> FALSE, err |-> p.err, values |-> <<>>, stack |-> p.stack]
           ELSE LET r == pop_n(p.stack, k - 1)
                IN  [ok |-> r.ok, err |-> r.err,
                     values |-> <<p.value>> \o r.values, stack |-> r.stack]

\* pop_u256!(state, x1, .., xk): the same, each value read big-endian.
pop_u256(stack, k) ==
  LET r == pop_n(stack, k)
  IN  [ok |-> r.ok, err |-> r.err, stack |-> r.stack,
       values |-> [i \in 1..Len(r.values) |-> U256_from_big_endian(r.values[i])]]

\* push!(state, value): Continue(n) when the push succeeds, else its error.
push_value(state, value, n) ==
  LET r == Stack_push(state.stack, value)
  IN  IF r.ok
      THEN Result([state EXCEPT !.stack = r.stack], Continue(n))
      ELSE Result(state, Exit(r.err))

\* push_u256!(state, value)
push_u256(state, value, n) == push_value(state, H256_from_U256(value), n)

\* ------------------------------------------------- core/src/eval/misc.rs
codesize(state) == push_u256(state, U256_from_usize(Len(state.code)), 1)

\* A codecopy as strict as RETURNDATACOPY: a source range past the end of
\* the code exits Error::OutOfOffset.
codecopy_strict(state) ==
  LET p == pop_u256(state.stack, 3)
      s1 == [state EXCEPT !.stack = p.stack]
  IN  IF ~p.ok THEN Result(s1, Exit(p.err)) ELSE
      LET memory_offset == p.values[1]
          end == U256_checked_add(p.values[2], p.values[3])
          r == Memory_resize_offset(s1.memory, memory_offset, p.values[3])
      IN  IF ~r.ok THEN Result(s1, Exit(r.err)) ELSE
          IF end.overflow \/ U256_gt(end.value, U256_from_usize(Len(s1.code)))
          THEN Result([s1 EXCEPT !.memory = r.memory], Exit("Error::OutOfOffset"))
          ELSE LET c == Memory_copy_large(r.memory, memory_offset, p.values[2],
                                          p.values[3], s1.code)
               IN  IF c.ok
                   THEN Result([s1 EXCEPT !.memory = c.memory], Continue(1))
                   ELSE Result([s1 EXCEPT !.memory = r.memory], Exit(c.err))

codecopy(state) ==
  LET p == pop_u256(state.stack, 3)
      s1 == [state EXCEPT !.stack = p.stack]
  IN  IF ~p.ok THEN Result(s1, Exit(p.err)) ELSE
      LET memory_offset == p.values[1]
          code_offset == p.values[2]
          len == p.values[3]
          r == Memory_resize_offset(s1.memory, memory_offset, len)
      IN  IF ~r.ok THEN Result(s1, Exit(r.err)) ELSE
          LET c == Memory_copy_large(r.memory, memory_offset, code_offset, len, s1.code)
          IN  IF c.ok
              THEN Result([s1 EXCEPT !.memory = c.memory], Continue(1))
              ELSE Result([s1 EXCEPT !.memory = r.memory], Exit(c.err))

\* calldataload adding the byte offset modulo 2^256, with no overflow test.
calldataload_wrapping(state) ==
  LET p == pop_u256(state.stack, 1)
      s1 == [state EXCEPT !.stack = p.stack]
  IN  IF ~p.ok THEN Result(s1, Exit(p.err)) ELSE
      LET index == p.values[1]
          load == [i \in 1..WordBytes |->
                     LET q == U256_checked_add(index, U256_from_usize(i - 1))
                     IN  IF U256_lt_len(q.value, Len(s1.data))
                         THEN s1.data[U256_as_usize(q.value) + 1]
                         ELSE 0]
      IN  push_value(s1, load, 1)

calldataload(state) ==
  LET p == pop_u256(state.stack, 1)
      s1 == [state EXCEPT !.stack = p.stack]
  IN  IF ~p.ok THEN Result(s1, Exit(p.err)) ELSE
      LET index == p.values[1]
          load == [i \in 1..WordBytes |->
                     LET q == U256_checked_add(index, U256_from_usize(i - 1))
                     IN  IF /\ ~q.overflow
                            /\ U256_le(q.value, USIZE_MAX)
                            /\ U256_lt_len(q.value, Len(s1.data))
                         THEN s1.data[U256_as_usize(q.value) + 1]
                         ELSE 0]
      IN  push_value(s1, load, 1)

calldatasize(state) == push_u256(state, U256_from_usize(Len(state.data)), 1)

\* A calldatacopy that tests its source range before anything else, the
\* empty range too.
calldatacopy_strict(state) ==
  LET p == pop_u256(state.stack, 3)
      s1 == [state EXCEPT !.stack = p.stack]
      end == U256_checked_add(p.values[2], p.values[3])
  IN  IF ~p.ok THEN Result(s1, Exit(p.err)) ELSE
      IF end.overflow \/ U256_gt(end.value, U256_from_usize(Len(s1.data)))
      THEN Result(s1, Exit("Error::OutOfOffset"))
      ELSE codecopy([s1 EXCEPT !.stack = state.stack, !.code = s1.data])

calldatacopy(state) ==
  LET p == pop_u256(state.stack, 3)
      s1 == [state EXCEPT !.stack = p.stack]
  IN  IF ~p.ok THEN Result(s1, Exit(p.err)) ELSE
      LET memory_offset == p.values[1]
          data_offset == p.values[2]
          len == p.values[3]
          r == Memory_resize_offset(s1.memory, memory_offset, len)
      IN  IF ~r.ok THEN Result(s1, Exit(r.err)) ELSE
          IF len = U256_zero
          THEN Result([s1 EXCEPT !.memory = r.memory], Continue(1))
          ELSE LET c == Memory_copy_large(r.memory, memory_offset, data_offset, len, s1.data)
               IN  IF c.ok
                   THEN Result([s1 EXCEPT !.memory = c.memory], Continue(1))
                   ELSE Result([s1 EXCEPT !.memory = r.memory], Exit(c.err))

pop(state) ==
  LET p == pop_n(state.stack, 1)
      s1 == [state EXCEPT !.stack = p.stack]
  IN  IF ~p.ok THEN Result(s1, Exit(p.err)) ELSE Result(s1, Continue(1))

mload(state) ==
  LET p == pop_u256(state.stack, 1)
      s1 == [state EXCEPT !.stack = p.stack]
  IN  IF ~p.ok THEN Result(s1, Exit(p.err)) ELSE
      LET index == p.values[1]
          r == Memory_resize_offset(s1.memory, index, U256_from_usize(32))
          s2 == [s1 EXCEPT !.memory = r.memory]
      IN  IF ~r.ok THEN Result(s1, Exit(r.err)) ELSE
          IF U256_gt(index, USIZE_MAX) THEN Result(s2, Exit("Fatal::NotSupported")) ELSE
          push_value(s2, Memory_get(s2.memory, U256_as_usize(index), 32), 1)

\* mstore writing the bytes of the word in the opposite order.
mstore_reversed(state) ==
  LET p == pop_u256(state.stack, 1)
      q == pop_n(p.stack, 1)
      s1 == [state EXCEPT !.stack = q.stack]
  IN  IF ~p.ok \/ ~q.ok THEN Result(s1, Exit("Error::StackUnderflow")) ELSE
      LET index == p.values[1]
          r == Memory_resize_offset(s1.memory, index, U256_from_usize(32))
      IN  IF ~r.ok \/ U256_gt(index, USIZE_MAX)
          THEN Result(s1, Exit("Fatal::NotSupported"))
          ELSE LET w == Memory_set(r.memory, U256_as_usize(index), Reverse(q.values[1]), 32)
               IN  Result([s1 EXCEPT !.memory = w.memory], Continue(1))

mstore(state) ==
  LET p == pop_u256(state.stack, 1)
      s0 == [state EXCEPT !.stack = p.stack]
  IN  IF ~p.ok THEN Result(s0, Exit(p.err)) ELSE
      LET q == pop_n(s0.stack, 1)
          s1 == [s0 EXCEPT !.stack = q.stack]
      IN  IF ~q.ok THEN Result(s1, Exit(q.err)) ELSE
          LET index == p.values[1]
              value == q.values[1]
              r == Memory_resize_offset(s1.memory, index, U256_from_usize(32))
              s2 == [s1 EXCEPT !.memory = r.memory]
          IN  IF ~r.ok THEN Result(s1, Exit(r.err)) ELSE
              IF U256_gt(index, USIZE_MAX) THEN Result(s2, Exit("Fatal::NotSupported")) ELSE
              LET w == Memory_set(s2.memory, U256_as_usize(index), value, 32)
              IN  IF w.ok
                  THEN Result([s2 EXCEPT !.memory = w.memory], Continue(1))
                  ELSE Result(s2, Exit(w.err))

\* mstore8 growing the memory to index + 1 bytes, not to whole words.
mstore8_exact(state) ==
  LET p == pop_u256(state.stack, 2)
      s1 == [state EXCEPT !.stack = p.stack]
  IN  IF ~p.ok THEN Result(s1, Exit(p.err)) ELSE
      LET index == p.values[1]
          r == Memory_resize_offset(s1.memory, index, U256_one)
      IN  IF ~r.ok \/ U256_gt(index, USIZE_MAX)
          THEN Result(s1, Exit("Fatal::NotSupported"))
          ELSE LET m == [r.memory EXCEPT
                           !.effective_len = Max(s1.memory.effective_len,
                                                 U256_as_usize(index) + 1)]
                   w == Memory_set(m, U256_as_usize(index),
                                   <<U256_low_byte(p.values[2])>>, 1)
               IN  Result([s1 EXCEPT !.memory = w.memory], Continue(1))

mstore8(state) ==
  LET p == pop_u256(state.stack, 2)
      s1 == [state EXCEPT !.stack = p.stack]
  IN  IF ~p.ok THEN Result(s1, Exit(p.err)) ELSE
      LET index == p.values[1]
          r == Memory_resize_offset(s1.memory, index, U256_one)
          s2 == [s1 EXCEPT !.memory = r.memory]
      IN  IF ~r.ok THEN Result(s1, Exit(r.err)) ELSE
          IF U256_gt(index, USIZE_MAX) THEN Result(s2, Exit("Fatal::NotSupported")) ELSE
          LET value == U256_low_byte(p.values[2])
              w == Memory_set(s2.memory, U256_as_usize(index), <<value>>, 1)
          IN  IF w.ok
              THEN Result([s2 EXCEPT !.memory = w.memory], Continue(1))
              ELSE Result(s2, Exit(w.err))

\* jump without the look-up in the table of valid destinations: every
\* position inside the code is taken.
jump_unchecked(state) ==
  LET p == pop_u256(state.stack, 1)
      s1 == [state EXCEPT !.stack = p.stack]
  IN  IF ~p.ok THEN Result(s1, Exit(p.err)) ELSE
      LET dest == p.values[1]
      IN  IF U256_lt_len(dest, Len(s1.code))
          THEN Result(s1, Jump(U256_as_usize(dest)))
          ELSE Result(s1, Exit("Error::InvalidJump"))

jump(state) ==
  LET p == pop_u256(state.stack, 1)
      s1 == [state EXCEPT !.stack = p.stack]
  IN  IF ~p.ok THEN Result(s1, Exit(p.err)) ELSE
      LET dest == p.values[1]
      IN  IF U256_gt(dest, USIZE_MAX) THEN Result(s1, Exit("Error::InvalidJump")) ELSE
          IF Valids_is_valid(s1.valids, dest)
          THEN Result(s1, Jump(U256_as_usize(dest)))
          ELSE Result(s1, Exit("Error::InvalidJump"))

jumpi(state) ==
  LET p == pop_u256(state.stack, 2)
      s1 == [state EXCEPT !.stack = p.stack]
  IN  IF ~p.ok THEN Result(s1, Exit(p.err)) ELSE
      LET dest == p.values[1]
          value == p.values[2]
      IN  IF U256_gt(dest, USIZE_MAX) THEN Result(s1, Exit("Error::InvalidJump")) ELSE
          IF value # U256_zero
          THEN IF Valids_is_valid(s1.valids, dest)
               THEN Result(s1, Jump(U256_as_usize(dest)))
               ELSE Result(s1, Exit("Error::InvalidJump"))
          ELSE Result(s1, Continue(1))

pc(state, position) == push_u256(state, U256_from_usize(position), 1)

msize(state) == push_u256(state, U256_from_usize(state.memory.effective_len), 1)

push(state, n, position) ==
  LET end == Min(position + 1 + n, Len(state.code))
      val == U256_from_big_endian(SubSeq(state.code, position + 2, end))
  IN  push_u256(state, val, 1 + n)

\* dup pushing the copy without the test of the stack limit.
dup_unlimited(state, n) ==
  LET v == Stack_peek(state.stack, n - 1)
  IN  IF ~v.ok THEN Result(state, Exit(v.err))
      ELSE Result([state EXCEPT !.stack = Append(state.stack, v.value)], Continue(1))

dup(state, n) ==
  LET v == Stack_peek(state.stack, n - 1)
  IN  IF ~v.ok THEN Result(state, Exit(v.err)) ELSE push_value(state, v.value, 1)

\* A swap that writes the top before it reads the item at depth n.
swap_set_first(state, n) ==
  LET val1 == Stack_peek(state.stack, 0)
  IN  IF ~val1.ok THEN Result(state, Exit(val1.err)) ELSE
      LET a == Stack_set(state.stack, 0, Stack_peek(state.stack, Min(n, Len(state.stack) - 1)).value)
          val2 == Stack_peek(state.stack, n)
      IN  IF ~val2.ok THEN Result([state EXCEPT !.stack = a.stack], Exit(val2.err)) ELSE
          LET b == Stack_set(a.stack, n, val1.value)
          IN  Result([state EXCEPT !.stack = b.stack], Continue(1))

swap(state, n) ==
  LET val1 == Stack_peek(state.stack, 0)
      val2 == Stack_peek(state.stack, n)
  IN  IF ~val1.ok THEN Result(state, Exit(val1.err)) ELSE
      IF ~val2.ok THEN Result(state, Exit(val2.err)) ELSE
      LET a == Stack_set(state.stack, 0, val2.value)
      IN  IF ~a.ok THEN Result(state, Exit(a.err)) ELSE
          LET b == Stack_set(a.stack, n, val1.value)
          IN  IF ~b.ok
              THEN Result([state EXCEPT !.stack = a.stack], Exit(b.err))
              ELSE Result([state EXCEPT !.stack = b.stack], Continue(1))

\* A ret that records the return range before it expands the memory.
ret_range_first(state) ==
  LET p == pop_u256(state.stack, 2)
      s1 == [state EXCEPT !.stack = p.stack]
  IN  IF ~p.ok THEN Result(s1, Exit(p.err)) ELSE
      LET start == p.values[1]
          len == p.values[2]
          s2 == [s1 EXCEPT !.return_range =
                             [start |-> start, end |-> U256_checked_add(start, len).value]]
          r == Memory_resize_offset(s1.memory, start, len)
      IN  IF ~r.ok THEN Result(s2, Exit(r.err)) ELSE
          Result([s2 EXCEPT !.memory = r.memory], Exit("Succeed::Returned"))

ret(state) ==
  LET p == pop_u256(state.stack, 2)
      s1 == [state EXCEPT !.stack = p.stack]
  IN  IF ~p.ok THEN Result(s1, Exit(p.err)) ELSE
      LET start == p.values[1]
          len == p.values[2]
          r == Memory_resize_offset(s1.memory, start, len)
      IN  IF ~r.ok THEN Result(s1, Exit(r.err)) ELSE
          Result([s1 EXCEPT !.memory = r.memory,
                            !.return_range = [start |-> start,
                                              end |-> U256_checked_add(start, len).value]],
                 Exit("Succeed::Returned"))

\* revert, line 203, on the state the lines before it made: where the
\* trace level of the log is enabled, start.as_usize() and len.as_usize()
\* are evaluated, and as_usize panics on a value above usize::MAX.
revert_trace(s2, start, len, trace) ==
  IF trace /\ ~(U256_fits_usize(start) /\ U256_fits_usize(len))
  THEN Result(s2, Panic)
  ELSE Result(s2, Exit("Revert::Reverted"))

\* revert; trace is whether the trace level of the log is enabled.
revert(state, trace) ==
  LET p == pop_u256(state.stack, 2)
      s1 == [state EXCEPT !.stack = p.stack]
  IN  IF ~p.ok THEN Result(s1, Exit(p.err)) ELSE
      LET start == p.values[1]
          len == p.values[2]
          r == Memory_resize_offset(s1.memory, start, len)
      IN  IF ~r.ok THEN Result(s1, Exit(r.err)) ELSE
          revert_trace([s1 EXCEPT !.memory = r.memory,
                                  !.return_range = [start |-> start,
                                                    end |-> U256_checked_add(start, len).value]],
                       start, len, trace)

\* ----------------------------------------------------------- opcodes
\* The bytes that are no opcode of the table: ExternalOpcode::Other(byte).
Unassigned ==
  (12..15) \cup {30, 31} \cup (33..47) \cup (72..79) \cup (92..95)
    \cup (165..239) \cup (246..249) \cup {251, 252}

\* Opcode::parse(byte): the inner opcodes of the Machine, Err(external)
\* for the opcodes the Runtime dispatches.
Opcode_parse(b) ==
  CASE b = 0 -> "Stop"
    [] b = 53 -> "CallDataLoad"
    [] b = 54 -> "CallDataSize"
    [] b = 55 -> "CallDataCopy"
    [] b = 56 -> "CodeSize"
    [] b = 57 -> "CodeCopy"
    [] b = 61 -> "ReturnDataSize"
    [] b = 62 -> "ReturnDataCopy"
    [] b = 80 -> "Pop"
    [] b = 81 -> "MLoad"
    [] b = 82 -> "MStore"
    [] b = 83 -> "MStore8"
    [] b = 86 -> "Jump"
    [] b = 87 -> "JumpI"
    [] b = 88 -> "PC"
    [] b = 89 -> "MSize"
    [] b = 91 -> "JumpDest"
    [] b >= 96 /\ b <= 127 -> "Push"
    [] b >= 128 /\ b <= 143 -> "Dup"
    [] b >= 144 /\ b <= 159 -> "Swap"
    [] b = 240 -> "Create"
    [] b = 241 -> "Call"
    [] b = 242 -> "CallCode"
    [] b = 243 -> "Return"
    [] b = 244 -> "DelegateCall"
    [] b = 245 -> "Create2"
    [] b = 250 -> "StaticCall"
    [] b = 253 -> "Revert"
    [] b = 254 -> "Invalid"
    [] b \in Unassigned -> "Other"
    [] OTHER -> "NotModelled"

\* The n of PUSHn, DUPn and SWAPn.
Opcode_n(b) ==
  CASE b >= 96 /\ b <= 127 -> b - 95
    [] b >= 128 /\ b <= 143 -> b - 127
    [] b >= 144 /\ b <= 159 -> b - 143
    [] OTHER -> 0

\* ------------------------------------------------------------ Machine
PositionOk(p) == [ok |-> TRUE, pos |-> p, reason |-> "None"]

PositionErr(reason) == [ok |-> FALSE, pos |-> 0, reason |-> reason]

Machine_new(code, data, limit) ==
  [code |-> code,
   data |-> data,
   position |-> PositionOk(0),
   return_range |-> [start |-> U256_zero, end |-> U256_zero],
   valids |-> Valids_new(code),
   memory |-> Memory_new(limit),
   stack |-> <<>>]

\* machine.return_value(): the memory window the last RETURN/REVERT chose.
Machine_return_value(m) ==
  IF m.return_range.start = m.return_range.end
       \/ ~U256_small(m.return_range.start) \/ ~U256_small(m.return_range.end)
  THEN <<>>
  ELSE Memory_get(m.memory, U256_as_usize(m.return_range.start),
                  U256_as_usize(m.return_range.end) - U256_as_usize(m.return_range.start))

\* What Machine::step does with the Control an opcode returned.
Machine_apply(position, r) ==
  CASE r.control.kind = "Continue" ->
         [r.state EXCEPT !.position = PositionOk(position + r.control.n)]
    [] r.control.kind = "Jump" ->
         [r.state EXCEPT !.position = PositionOk(r.control.n)]
    [] OTHER ->
         [r.state EXCEPT !.position = PositionErr(r.control.reason)]

\* ------------------------------------------------------------ Runtime
\* A Runtime is [machine, return_data_buffer, context, status, interrupt].
\* status is "Running", "Interrupted", "Exited" or, once an opcode has
\* panicked, "Aborted"; interrupt is the capture
\* payload of the pending call or create.
NoInterrupt ==
  [kind |-> "None", scheme |-> "None", out_offset |-> U256_zero, out_len |-> U256_zero,
   code_address |-> <<>>, input |-> <<>>,
   context |-> [address |-> <<>>, caller |-> <<>>, apparent_value |-> U256_zero]]

Runtime_new(code, data, context) ==
  [machine |-> Machine_new(code, data, MemoryLimit),
   return_data_buffer |-> <<>>,
   context |-> context,
   status |-> "Running",
   interrupt |-> NoInterrupt]

\* The H160 of a stack word: its last 20 bytes.
H160_from_H256(w) == SubSeq(w, 13, 32)

IsSucceed(reason) == reason \in {"Succeed::Stopped", "Succeed::Returned", "Succeed::Suicided"}

IsFatal(reason) == reason \in {"Fatal::NotSupported", "Fatal::UnhandledInterrupt"}

\* The Context the nested frame of a call observes, by CallScheme.
Call_context(scheme, current, target, value) ==
  CASE scheme = "Call" ->
         [address |-> target, caller |-> current.address, apparent_value |-> value]
    [] scheme = "CallCode" ->
         [address |-> current.address, caller |-> current.address, apparent_value |-> value]
    [] scheme = "DelegateCall" ->
         [address |-> current.address, caller |-> current.caller,
          apparent_value |-> current.apparent_value]
    [] OTHER ->
         [address |-> target, caller |-> current.address, apparent_value |-> U256_zero]

\* system::call, step 1: pop the arguments of the scheme and expand the
\* memory for the input range and for the output range the result is
\* copied to.  [ok, err, rt, interrupt]
system_call_begin(rt, scheme) ==
  LET with_value == scheme \in {"Call", "CallCode"}
      k == IF with_value THEN 7 ELSE 6
      p == pop_n(rt.machine.stack, k)
      r1 == [rt EXCEPT !.machine.stack = p.stack]
  IN  IF ~p.ok THEN [ok |-> FALSE, err |-> p.err, rt |-> r1, interrupt |-> NoInterrupt] ELSE
      LET to == p.values[2]
          value == IF with_value THEN U256_from_big_endian(p.values[3]) ELSE U256_zero
          o == IF with_value THEN 3 ELSE 2
          in_offset == U256_from_big_endian(p.values[o + 1])
          in_len == U256_from_big_endian(p.values[o + 2])
          out_offset == U256_from_big_endian(p.values[o + 3])
          out_len == U256_from_big_endian(p.values[o + 4])
          e1 == Memory_resize_offset(r1.machine.memory, in_offset, in_len)
          e2 == Memory_resize_offset(e1.memory, out_offset, out_len)
      IN  IF ~e1.ok THEN [ok |-> FALSE, err |-> e1.err, rt |-> r1, interrupt |-> NoInterrupt] ELSE
          IF ~e2.ok THEN [ok |-> FALSE, err |-> e2.err,
                          rt |-> [r1 EXCEPT !.machine.memory = e1.memory],
                          interrupt |-> NoInterrupt] ELSE
          LET r2 == [r1 EXCEPT !.machine.memory = e2.memory]
              input == IF in_len = U256_zero THEN <<>>
                       ELSE Memory_get(r2.machine.memory, U256_as_usize(in_offset),
                                       U256_as_usize(in_len))
          IN  [ok |-> TRUE, err |-> "None", rt |-> r2,
               interrupt |-> [kind |-> "Call", scheme |-> scheme,
                              out_offset |-> out_offset, out_len |-> out_len,
                              code_address |-> H160_from_H256(to), input |-> input,
                              context |-> Call_context(scheme, r2.context,
                                                       H160_from_H256(to), value)]]

\* The address a create deploys to: the handler's policy, here the
\* creator's address with its last byte raised by 16.
Create_address(caller) == [caller EXCEPT ![20] = (caller[20] + 16) % 256]

\* system::create, step 1: pop value, code_offset, len (and the salt of
\* CREATE2) and expand the memory for the init code.
system_create_begin(rt, is_create2) ==
  LET k == IF is_create2 THEN 4 ELSE 3
      p == pop_n(rt.machine.stack, k)
      r1 == [rt EXCEPT !.machine.stack = p.stack]
  IN  IF ~p.ok THEN [ok |-> FALSE, err |-> p.err, rt |-> r1, interrupt |-> NoInterrupt] ELSE
      LET value == U256_from_big_endian(p.values[1])
          code_offset == U256_from_big_endian(p.values[2])
          len == U256_from_big_endian(p.values[3])
          e1 == Memory_resize_offset(r1.machine.memory, code_offset, len)
      IN  IF ~e1.ok THEN [ok |-> FALSE, err |-> e1.err, rt |-> r1, interrupt |-> NoInterrupt] ELSE
          LET r2 == [r1 EXCEPT !.machine.memory = e1.memory]
              init_code == IF len = U256_zero THEN <<>>
                           ELSE Memory_get(r2.machine.memory, U256_as_usize(code_offset),
                                           U256_as_usize(len))
              target == Create_address(r2.context.address)
          IN  [ok |-> TRUE, err |-> "None", rt |-> r2,
               interrupt |-> [kind |-> "Create",
                              scheme |-> IF is_create2 THEN "Create2" ELSE "Legacy",
                              out_offset |-> U256_zero, out_len |-> U256_zero,
                              code_address |-> target, input |-> init_code,
                              context |-> [address |-> target, caller |-> r2.context.address,
                                           apparent_value |-> value]]]

\* Step 3 of a call or create: with the result (reason, output) of the
\* operation, copy the output to the designated memory range, capped by
\* the caller-chosen output length, push 1 or 0, keep the output as
\* return_data_buffer and advance the pc.  A fatal reason exits the frame.
system_finish(rt, interrupt, reason, output) ==
  LET position == rt.machine.position.pos
      r1 == [rt EXCEPT !.return_data_buffer = output, !.status = "Running",
                       !.interrupt = NoInterrupt]
      cap == U256_from_usize(Len(output))
      target_len == IF U256_lt(interrupt.out_len, cap) THEN interrupt.out_len ELSE cap
      c == Memory_copy_large(r1.machine.memory, interrupt.out_offset, U256_zero,
                             target_len, output)
      r2 == [r1 EXCEPT !.machine.memory = c.memory]
      flag == IF IsSucceed(reason) THEN U256_one ELSE U256_zero
  IN  IF IsFatal(reason)
      THEN [r1 EXCEPT !.machine.position = PositionErr(reason), !.status = "Exited"]
      ELSE IF ~c.ok
      THEN [r1 EXCEPT !.machine.position = PositionErr(c.err), !.status = "Exited"]
      ELSE LET r == push_u256(r2.machine, flag, 1)
               m == Machine_apply(position, r)
           IN  [r2 EXCEPT !.machine = m,
                          !.status = IF m.position.ok THEN "Running" ELSE "Exited"]

\* The frame's state when step 1 fails: the frame exits with the error.
system_fail(rt, err) ==
  [rt EXCEPT !.machine.position = PositionErr(err), !.status = "Exited"]

\* A Capture::Trap that records the interrupt and lets the frame run on.
system_trap_running(rt, interrupt) ==
  [rt EXCEPT !.interrupt = interrupt,
             !.machine.position = PositionOk(rt.machine.position.pos + 1)]

\* The frame pausing on Capture::Trap(interrupt).
system_trap(rt, interrupt) ==
  [rt EXCEPT !.status = "Interrupted", !.interrupt = interrupt]

\* ------------------------------------------------- runtime/src/handler.rs
\* Handler::create_feedback, the default of the trait: Ok(()).
create_feedback(feedback) == [ok |-> TRUE, err |-> "None"]

\* A call_feedback that refuses every feedback.
call_feedback_refusing(feedback) == [ok |-> FALSE, err |-> "Error::OutOfGas"]

\* Handler::call_feedback, the default of the trait: Ok(()).
call_feedback(feedback) == [ok |-> TRUE, err |-> "None"]

\* runtime.resume(feedback): the handler is fed the feedback, whose error
\* exits the frame; the feedback carries the tuple of the synchronous
\* case, and step 3 applies.
Runtime_resume(rt, reason, output) ==
  LET feedback == [reason |-> reason, output |-> output]
      fed == IF rt.interrupt.kind = "Create"
             THEN create_feedback(feedback)
             ELSE call_feedback(feedback)
  IN  IF fed.ok
      THEN system_finish(rt, rt.interrupt, reason, output)
      ELSE system_fail([rt EXCEPT !.interrupt = NoInterrupt], fed.err)

\* -------------------------------------------------------------- state
VARIABLES
  machine,             \* the Machine of the frame that runs
  return_data_buffer,  \* its Runtime's return data buffer
  context,             \* its Runtime's Context
  status,              \* "Running", "Interrupted", "Exited" or "Aborted"
  interrupt,           \* the payload of its pending interrupt
  suspended,           \* the host's interrupted caller frames, outermost first
  last,                \* the step taken last, with the Runtime before it
  resteps,             \* steps taken on the frame since it exited
  backend,             \* the MemoryBackend: vicinity, state and logs
  called,              \* the call made last on the backend, with the backend before it
  applies              \* apply calls made on the backend

\* The state of the Runtime and its host.
evars == <<machine, return_data_buffer, context, status, interrupt, suspended, last, resteps>>

\* The state of the MemoryBackend and its caller.
bvars == <<backend, called, applies>>

vars ==
  <<machine, return_data_buffer, context, status, interrupt, suspended, last, resteps,
    backend, called, applies>>

\* The Runtime that runs, as one record.
Runtime ==
  [machine |-> machine, return_data_buffer |-> return_data_buffer, context |-> context,
   status |-> status, interrupt |-> interrupt]

SetRuntime(rt) ==
  /\ machine' = rt.machine
  /\ return_data_buffer' = rt.return_data_buffer
  /\ context' = rt.context
  /\ status' = rt.status
  /\ interrupt' = rt.interrupt

\* The record of a step: the opcode, the Runtime before it, the reason and
\* output it carried, and the step before it with the stack that one found.
Done(op, pre, reason, output) ==
  [op |-> op, pre |-> pre, reason |-> reason, output |-> output,
   prior |-> [op |-> last.op, stack |-> last.pre.machine.stack]]

\* The opcode byte at the position, when the frame runs inside its code.
InCode == status = "Running" /\ machine.position.ok /\ machine.position.pos < Len(machine.code)

OpByte == machine.code[machine.position.pos + 1]

At(name) == InCode /\ Opcode_parse(OpByte) = name

\* The opcode byte at the position, or b when there is none.
OpByteOr(b) == IF InCode THEN OpByte ELSE b

\* Machine::step on an inner opcode whose eval returned r.
Inner(op, r) ==
  LET m == Machine_apply(machine.position.pos, r)
  IN  /\ machine' = m
      /\ status' = IF m.position.ok THEN "Running"
                    ELSE IF r.control.kind = "Panic" THEN "Aborted" ELSE "Exited"
      /\ last' = Done(op, Runtime, r.control.reason, <<>>)
      /\ resteps' = 0
      /\ UNCHANGED <<return_data_buffer, context, interrupt, suspended>>
      /\ UNCHANGED bvars

StepStop == At("Stop") /\ Inner("Stop", Result(machine, Exit("Succeed::Stopped")))

StepCodeSize == At("CodeSize") /\ Inner("CodeSize", codesize(machine))

StepCodeCopy == At("CodeCopy") /\ Inner("CodeCopy", codecopy(machine))

StepCallDataLoad == At("CallDataLoad") /\ Inner("CallDataLoad", calldataload(machine))

StepCallDataSize == At("CallDataSize") /\ Inner("CallDataSize", calldatasize(machine))

StepCallDataCopy == At("CallDataCopy") /\ Inner("CallDataCopy", calldatacopy(machine))

StepPop == At("Pop") /\ Inner("Pop", pop(machine))

StepMLoad == At("MLoad") /\ Inner("MLoad", mload(machine))

StepMStore == At("MStore") /\ Inner("MStore", mstore(machine))

StepMStore8 == At("MStore8") /\ Inner("MStore8", mstore8(machine))

StepJump == At("Jump") /\ Inner("Jump", jump(machine))

StepJumpI == At("JumpI") /\ Inner("JumpI", jumpi(machine))

StepPC == At("PC") /\ Inner("PC", pc(machine, machine.position.pos))

StepMSize == At("MSize") /\ Inner("MSize", msize(machine))

StepJumpDest == At("JumpDest") /\ Inner("JumpDest", Result(machine, Continue(1)))

StepPush == At("Push") /\ Inner("Push", push(machine, Opcode_n(OpByte), machine.position.pos))

StepDup == At("Dup") /\ Inner("Dup", dup(machine, Opcode_n(OpByte)))

StepSwap == At("Swap") /\ Inner("Swap", swap(machine, Opcode_n(OpByte)))

StepReturn == At("Return") /\ Inner("Return", ret(machine))

StepRevert ==
  \E trace \in BOOLEAN : At("Revert") /\ Inner("Revert", revert(machine, trace))

StepInvalid ==
  At("Invalid") /\ Inner("Invalid", Result(machine, Exit("Error::DesignatedInvalid")))

\* Machine::step with the position at or past the end of the code.
StepEndOfCode ==
  /\ status = "Running" /\ machine.position.ok
  /\ machine.position.pos >= Len(machine.code)
  /\ Inner("EndOfCode", Result(machine, Exit("Succeed::Stopped")))

\* Machine::step on a Machine that has exited, restarting the code.
Machine_step_restart(m) ==
  [machine |-> [m EXCEPT !.position = PositionOk(0)], reason |-> "Succeed::Stopped"]

\* Machine::step on a Machine that has exited: the Machine it leaves and
\* the exit it returns, which is the exit the position keeps.
Machine_step_exited(m) == [machine |-> m, reason |-> m.position.reason]

StepExited ==
  /\ status = "Exited" /\ ~machine.position.ok
  /\ resteps < MaxResteps
  /\ LET r == Machine_step_exited(machine)
     IN  /\ machine' = r.machine
         /\ last' = Done("Exited", Runtime, r.reason, <<>>)
  /\ resteps' = resteps + 1
  /\ UNCHANGED <<return_data_buffer, context, status, interrupt, suspended>>
  /\ UNCHANGED bvars

\* ------------------------------------------------- runtime/src/eval/mod.rs
\* The CallScheme eval passes to system::call for a call opcode.
CallOps == {"Call", "CallCode", "DelegateCall", "StaticCall"}

CreateOps == {"Create", "Create2"}

\* What system::call and system::create do with the answer of the
\* handler, a Capture::Exit with the result tuple or a Capture::Trap, once
\* step 1 has left b.
system_answer(b, answer) ==
  IF ~b.ok THEN system_fail(b.rt, b.err)
  ELSE IF answer.kind = "Exit"
  THEN system_finish(b.rt, b.interrupt, answer.reason, answer.output)
  ELSE system_trap(b.rt, b.interrupt)

\* system::call(state, scheme, handler); answer is what handler.call
\* returns.
system_call(rt, scheme, answer) == system_answer(system_call_begin(rt, scheme), answer)

\* system::create(state, is_create2, handler), in the same way.
system_create(rt, is_create2, answer) ==
  system_answer(system_create_begin(rt, is_create2), answer)

\* RETURNDATACOPY on the Machine and the return data buffer: the source
\* range is tested against the buffer, then the memory is expanded and
\* the range copied.
returndatacopy(state, buffer) ==
  LET p == pop_u256(state.stack, 3)
      s1 == [state EXCEPT !.stack = p.stack]
  IN  IF ~p.ok THEN Result(s1, Exit(p.err)) ELSE
      LET memory_offset == p.values[1]
          data_offset == p.values[2]
          len == p.values[3]
          end == U256_checked_add(data_offset, len)
      IN  IF end.overflow \/ U256_gt(end.value, U256_from_usize(Len(buffer)))
          THEN Result(s1, Exit("Error::OutOfOffset"))
          ELSE LET r == Memory_resize_offset(s1.memory, memory_offset, len)
               IN  IF ~r.ok THEN Result(s1, Exit(r.err)) ELSE
                   LET c == Memory_copy_large(r.memory, memory_offset, data_offset, len,
                                              buffer)
                   IN  IF c.ok
                       THEN Result([s1 EXCEPT !.memory = c.memory], Continue(1))
                       ELSE Result([s1 EXCEPT !.memory = r.memory], Exit(c.err))

\* Runtime::step on what an opcode of system left: the Machine r.state and
\* Control::Continue or Control::Exit.
system_control(rt, r) ==
  [rt EXCEPT !.machine = Machine_apply(rt.machine.position.pos, r),
             !.status = IF r.control.kind = "Continue" THEN "Running" ELSE "Exited"]

\* system::returndatasize
system_returndatasize(rt) ==
  system_control(rt,
    push_u256(rt.machine, U256_from_usize(Len(rt.return_data_buffer)), 1))

\* system::returndatacopy
system_returndatacopy(rt) ==
  system_control(rt, returndatacopy(rt.machine, rt.return_data_buffer))

\* Runtime::step on the Control::Continue of eval: the pc advances by one.
Control_Continue(rt) ==
  [rt EXCEPT !.machine.position = PositionOk(rt.machine.position.pos + 1)]

\* Runtime::step on the Control::Exit(reason) of eval: the frame exits.
Control_Exit(rt, reason) ==
  [rt EXCEPT !.machine.position = PositionErr(reason), !.status = "Exited"]

\* eval(state, opcode, handler) on the opcodes of the model; answer is
\* what the handler returns to the call eval makes.
eval(rt, opcode, answer) ==
  CASE opcode = "ReturnDataSize" -> system_returndatasize(rt)
    [] opcode = "ReturnDataCopy" -> system_returndatacopy(rt)
    [] opcode = "Create" -> system_create(rt, FALSE, answer)
    [] opcode = "Create2" -> system_create(rt, TRUE, answer)
    [] opcode = "Call" -> system_call(rt, "Call", answer)
    [] opcode = "CallCode" -> system_call(rt, "CallCode", answer)
    [] opcode = "DelegateCall" -> system_call(rt, "DelegateCall", answer)
    [] opcode = "StaticCall" -> system_call(rt, "StaticCall", answer)
    [] opcode = "Other" ->
         IF answer.kind = "Ok"
         THEN Control_Continue(rt)
         ELSE Control_Exit(rt, answer.reason)

\* ------------------------------------------------------------ handler
\* The results a handler of the model answers a call or create with.
HandlerResults ==
  { [reason |-> "Succeed::Returned", output |-> <<161, 162, 163>>],
    [reason |-> "Succeed::Stopped", output |-> <<>>],
    [reason |-> "Revert::Reverted", output |-> <<177, 178, 179>>],
    [reason |-> "Error::OutOfGas", output |-> <<>>],
    [reason |-> "Fatal::NotSupported", output |-> <<>>] }

HandlerAnswers ==
  {[kind |-> "Trap", reason |-> "None", output |-> <<>>]}
    \cup {[kind |-> "Exit", reason |-> t.reason, output |-> t.output] : t \in HandlerResults}

\* The answer of no handler: the opcode calls none.
NoAnswer == [kind |-> "None", reason |-> "None", output |-> <<>>]

\* Handler::other, the default of the trait: Err(ExitError::OutOfGas).
Handler_other(opcode, stack) ==
  [kind |-> "Err", reason |-> "Error::OutOfGas", output |-> <<>>]

\* What the handlers of the model answer to other(opcode, machine): the
\* default of the trait, or Ok(()) of a handler that overrides it and
\* leaves the Machine as it is.
OtherAnswers(opcode, stack) ==
  {Handler_other(opcode, stack), [kind |-> "Ok", reason |-> "None", output |-> <<>>]}

\* The address whose last byte is k.
Addr(k) == [i \in 1..20 |-> IF i = 20 THEN k ELSE 0]

\* The code of the outermost frame: the contract at address 1.
RootCode == IF suspended = <<>> THEN machine.code ELSE suspended[1].rt.machine.code

\* handler.code(address) in the world of the model.
CodeAt(address) ==
  CASE address = Addr(1) -> RootCode
    [] address = Addr(2) -> <<96, 171, 96, 0, 83, 96, 3, 96, 0, 243>>
    [] address = Addr(3) -> <<96, 187, 96, 1, 83, 96, 2, 96, 0, 253>>
    [] address = Addr(4) -> <<254>>
    [] OTHER -> <<>>

\* The frame the host runs for an interrupt.
Host_frame(i) ==
  IF i.kind = "Create"
  THEN Runtime_new(i.input, <<>>, i.context)
  ELSE Runtime_new(CodeAt(i.code_address), i.input, i.context)

\* The feedback the host builds from the frame that exited.
Host_feedback(m) ==
  [reason |-> m.position.reason,
   output |-> IF m.position.reason \in {"Succeed::Returned", "Revert::Reverted"}
              THEN Machine_return_value(m) ELSE <<>>]

\* The host keeping the interrupted frame while the nested one runs.
Host_suspend(frames, rt, pre) == Append(frames, [rt |-> rt, pre |-> pre])

\* Runtime::step on a call opcode.
StepCall ==
  \E name \in CallOps, answer \in HandlerAnswers :
    /\ At(name)
    /\ SetRuntime(eval(Runtime, name, answer))
    /\ last' = Done(name, Runtime, answer.reason, answer.output)
    /\ resteps' = 0
    /\ UNCHANGED suspended
    /\ UNCHANGED bvars

\* Runtime::step on a create opcode.
StepCreate ==
  \E name \in CreateOps, answer \in HandlerAnswers :
    /\ At(name)
    /\ SetRuntime(eval(Runtime, name, answer))
    /\ last' = Done(name, Runtime, answer.reason, answer.output)
    /\ resteps' = 0
    /\ UNCHANGED suspended
    /\ UNCHANGED bvars

\* Runtime::step on RETURNDATASIZE.
StepReturnDataSize ==
  /\ At("ReturnDataSize")
  /\ SetRuntime(eval(Runtime, "ReturnDataSize", NoAnswer))
  /\ last' = Done("ReturnDataSize", Runtime, "None", <<>>)
  /\ resteps' = 0
  /\ UNCHANGED suspended
  /\ UNCHANGED bvars

\* Runtime::step on RETURNDATACOPY.
StepReturnDataCopy ==
  /\ At("ReturnDataCopy")
  /\ SetRuntime(eval(Runtime, "ReturnDataCopy", NoAnswer))
  /\ last' = Done("ReturnDataCopy", Runtime, "None", <<>>)
  /\ resteps' = 0
  /\ UNCHANGED suspended
  /\ UNCHANGED bvars

\* Runtime::step on a byte that is no opcode of the table.
StepOther ==
  \E answer \in OtherAnswers(OpByteOr(0), machine) :
    /\ At("Other")
    /\ SetRuntime(eval(Runtime, "Other", answer))
    /\ last' = Done("Other", Runtime, answer.reason, <<>>)
    /\ resteps' = 0
    /\ UNCHANGED suspended
    /\ UNCHANGED bvars

\* The host starts the nested frame of the pending interrupt.
HostEnter ==
  /\ status = "Interrupted"
  /\ Len(suspended) < MaxDepth
  /\ suspended' = Host_suspend(suspended, Runtime, last.pre)
  /\ SetRuntime(Host_frame(interrupt))
  /\ last' = Done("HostEnter", Runtime, "None", <<>>)
  /\ resteps' = 0
  /\ UNCHANGED bvars

\* The nested frame has exited: the host resumes its caller with the
\* feedback of the exit.
HostReturn ==
  /\ status = "Exited"
  /\ suspended # <<>>
  /\ LET top == suspended[Len(suspended)]
         f == Host_feedback(machine)
     IN  /\ SetRuntime(Runtime_resume(top.rt, f.reason, f.output))
         /\ last' = Done("Resume", top.pre, f.reason, f.output)
  /\ suspended' = SubSeq(suspended, 1, Len(suspended) - 1)
  /\ resteps' = 0
  /\ UNCHANGED bvars

\* The host services the interrupt itself and resumes the frame.
HostFeedback ==
  /\ status = "Interrupted"
  /\ \E t \in HandlerResults :
       /\ SetRuntime(Runtime_resume(Runtime, t.reason, t.output))
       /\ last' = Done("Resume", last.pre, t.reason, t.output)
  /\ resteps' = 0
  /\ UNCHANGED suspended
  /\ UNCHANGED bvars

\* ------------------------------------------------------ MemoryBackend
\* a - b on U256: [overflow, value]; the - of U256 panics on overflow.
U256_overflowing_sub(a, b) ==
  LET borrow[i \in 0..WordBytes] ==
        IF i = 0 THEN 0 ELSE IF a[i] - b[i] - borrow[i - 1] < 0 THEN 1 ELSE 0
  IN  [overflow |-> borrow[WordBytes] = 1,
       value |-> [i \in 1..WordBytes |-> (a[i] - b[i] - borrow[i - 1] + 256) % 256]]

U256_ge(a, b) == ~U256_lt(a, b)

H256_default == Zeros(WordBytes)

\* BTreeMap::new(): the map with no key.
BTreeMap_new == [k \in {} |-> H256_default]

BTreeMap_insert(map, key, value) ==
  [k \in DOMAIN map \cup {key} |-> IF k = key THEN value ELSE map[k]]

BTreeMap_remove(map, key) == [k \in DOMAIN map \ {key} |-> map[k]]

\* MemoryVicinity: the fields block_hash reads.
Vicinity(block_number, block_hashes) ==
  [block_number |-> block_number, block_hashes |-> block_hashes]

\* MemoryAccount::default()
MemoryAccount_default ==
  [nonce |-> U256_zero, balance |-> U256_zero, storage |-> BTreeMap_new, code |-> <<>>]

MemoryBackend_new(vicinity, state) ==
  [vicinity |-> vicinity, state |-> state, logs |-> <<>>]

\* block_hash, past its test: block_hashes[index], which panics when the
\* index is not below the length.
block_hash_index(block_hashes, index) ==
  IF index < Len(block_hashes)
  THEN [panic |-> FALSE, value |-> block_hashes[index + 1]]
  ELSE [panic |-> TRUE, value |-> H256_default]

\* block_hash with distance = block_number - number - 1, which the test
\* reads only when number < block_number.
block_hash_at(vicinity, number, distance) ==
  IF \/ U256_ge(number, vicinity.block_number)
     \/ U256_ge(distance.value, U256_from_usize(Len(vicinity.block_hashes)))
  THEN [panic |-> FALSE, value |-> H256_default]
  ELSE block_hash_index(vicinity.block_hashes, U256_as_usize(distance.value))

MemoryBackend_block_hash(b, number) ==
  block_hash_at(b.vicinity, number,
    U256_overflowing_sub(
      U256_overflowing_sub(b.vicinity.block_number, number).value, U256_one))

MemoryBackend_exists(b, address) == address \in DOMAIN b.state

MemoryBackend_storage(b, address, index) ==
  IF address \in DOMAIN b.state
  THEN IF index \in DOMAIN b.state[address].storage
       THEN b.state[address].storage[index]
       ELSE H256_default
  ELSE H256_default

\* apply, lines 154-161: the slots that hold the zero word are removed.
apply_zeros(storage) ==
  [k \in {i \in DOMAIN storage : storage[i] # H256_default} |-> storage[k]]

\* A write that stores the zero word like any other.
apply_write_storing_zero(storage, index, value) == BTreeMap_insert(storage, index, value)

\* apply, lines 164-168: one write of the storage iterator.
apply_write(storage, index, value) ==
  IF value = H256_default
  THEN BTreeMap_remove(storage, index)
  ELSE BTreeMap_insert(storage, index, value)

\* The writes of the storage iterator made last to first, not in order.
RECURSIVE apply_storage_reversed(_, _)
apply_storage_reversed(storage, iter) ==
  IF iter = <<>>
  THEN storage
  ELSE apply_write(apply_storage_reversed(storage, Tail(iter)),
         Head(iter).index, Head(iter).value)

\* apply, lines 163-169: the writes of the storage iterator, in order.
RECURSIVE apply_storage(_, _)
apply_storage(storage, iter) ==
  IF iter = <<>>
  THEN storage
  ELSE apply_storage(apply_write(storage, Head(iter).index, Head(iter).value), Tail(iter))

\* apply, lines 143-169: the account of a Modify record.
apply_account(account, r) ==
  [balance |-> r.basic.balance,
   nonce |-> r.basic.nonce,
   code |-> IF r.code.some THEN r.code.value ELSE account.code,
   storage |->
     apply_storage(
       apply_zeros(IF r.reset_storage THEN BTreeMap_new ELSE account.storage),
       r.storage)]

\* An emptiness that also asks for an empty storage.
is_empty_without_storage(account) ==
  /\ account.balance = U256_zero
  /\ account.nonce = U256_zero
  /\ Len(account.code) = 0
  /\ DOMAIN account.storage = {}

\* apply, lines 171-173
is_empty(account) ==
  /\ account.balance = U256_zero
  /\ account.nonce = U256_zero
  /\ Len(account.code) = 0

\* apply, lines 176-178, with the account the record left.
apply_entry(state, address, account, delete_empty) ==
  IF is_empty(account) /\ delete_empty
  THEN BTreeMap_remove(state, address)
  ELSE BTreeMap_insert(state, address, account)

\* apply on one record.
apply_record(state, r, delete_empty) ==
  IF r.kind = "Modify"
  THEN apply_entry(state, r.address,
         apply_account(
           IF r.address \in DOMAIN state THEN state[r.address] ELSE MemoryAccount_default,
           r),
         delete_empty)
  ELSE BTreeMap_remove(state, r.address)

\* An apply that takes the records from the last to the first.
RECURSIVE apply_values_reversed(_, _, _)
apply_values_reversed(state, values, delete_empty) ==
  IF values = <<>>
  THEN state
  ELSE apply_record(
         apply_values_reversed(state, Tail(values), delete_empty), Head(values),
         delete_empty)

\* apply, lines 137-186: the records in order.
RECURSIVE apply_values(_, _, _)
apply_values(state, values, delete_empty) ==
  IF values = <<>>
  THEN state
  ELSE apply_values(apply_record(state, Head(values), delete_empty), Tail(values),
         delete_empty)

MemoryBackend_apply(b, values, logs, delete_empty) ==
  [vicinity |-> b.vicinity,
   state |-> apply_values(b.state, values, delete_empty),
   logs |-> b.logs \o logs]

\* The call made last on the backend: its arguments, the backend before
\* it and what it returned.
Call(op, pre, args, result) == [op |-> op, pre |-> pre, args |-> args, result |-> result]

NoArgs ==
  [values |-> <<>>, logs |-> <<>>, delete_empty |-> FALSE,
   address |-> Addr(0), index |-> H256_default, number |-> U256_zero]

NoCall(b) == Call("None", b, NoArgs, [panic |-> FALSE, value |-> H256_default])

\* ----------------------------------------------------------- programs
\* The words the programs of the model push.
W(n) == H256_from_U256(U256_from_usize(n))

WMax == [i \in 1..WordBytes |-> 255]

WUsizeMax == H256_from_U256(USIZE_MAX)

\* 2^64, the first value that is no machine index.
W2p64 == [i \in 1..WordBytes |-> IF i = WordBytes - UsizeBytes THEN 1 ELSE 0]

\* 2^256 - k for 1 <= k <= 255.
WNeg(k) == [i \in 1..WordBytes |-> IF i = WordBytes THEN 256 - k ELSE 255]

\* A word of 32 different bytes, and its bytes as immediate data.
WPat == [i \in 1..WordBytes |-> 200 + i]

\* A word whose every byte is the JUMPDEST opcode.
W5B == [i \in 1..WordBytes |-> 91]

Push32(w) == <<127>> \o w

Push1(b) == <<96, b>>

Prog(code, data) == [code |-> code, data |-> data]

\* JUMP to d; 35 is a JUMPDEST, 37 a 0x5B byte inside a PUSH1.
JumpTargets == {W(0), W(33), W(34), W(35), W(37), W(39), W(40), WUsizeMax, W2p64, WMax}

ProgJump ==
  {Prog(Push32(d) \o <<86, 0, 91, 96, 91, 0>>, <<>>) : d \in JumpTargets}
    \cup {Prog(<<96, 3, 86, 0, 91>>, <<>>), Prog(<<96, 4, 86, 0, 91, 0>>, <<>>)}

\* JUMPI to d on c; 68 is a JUMPDEST, 70 a 0x5B byte inside a PUSH1, and
\* 5 a 0x5B byte inside the PUSH32 of c = W5B.
JumpIConds == {W(0), W(1), W5B, W2p64}

JumpITargets == {W(5), W(67), W(68), W(70), W(72), WUsizeMax, W2p64, WMax}

ProgJumpI ==
  {Prog(Push32(c) \o Push32(d) \o <<87, 0, 91, 96, 91, 0>>, <<>>) :
     c \in JumpIConds, d \in JumpITargets}

\* PUSHn with avail of its n immediate bytes before the end of the code.
PushSizes == {1, 2, 3, 4, 31, 32}

ProgPush ==
  {Prog(pre \o <<95 + x[1]>> \o SubSeq(WPat, 1, x[2]), <<>>) :
     pre \in {<<>>, <<91>>},
     x \in {y \in PushSizes \X {0, 1, 2, 3, 4, 31, 32} : y[2] <= y[1]}}
    \cup {Prog(<<127, 1, 2, 3>>, <<>>)}

\* MSTORE(i, v); MLOAD(i), on an empty or a written memory.
MemIndexes ==
  {W(0), W(1), W(31), W(32), W(33), W(MemoryLimit - 32), W(MemoryLimit - 31),
   WUsizeMax, W2p64, WMax, WNeg(32), WNeg(31)}

MemValues == {WMax, W(1), WPat}

MemPrefixes ==
  {<<>>,
   Push32(WPat) \o Push32(W(0)) \o <<82>>,
   Push32(WMax) \o Push32(W(40)) \o <<82>>}

ProgMem ==
  {Prog(pre \o Push32(i) \o Push32(v) \o Push32(i) \o <<82, 81, 0>>, <<>>) :
     pre \in MemPrefixes, v \in MemValues, i \in MemIndexes}

\* MLOAD(i) alone, on an empty or a written memory.
ProgMLoad ==
  {Prog(pre \o Push32(i) \o <<81, 89, 0>>, <<>>) :
     pre \in {<<>>, Push32(WPat) \o Push32(W(0)) \o <<82>>}, i \in MemIndexes}

ProgMStore8 ==
  {Prog(pre \o Push32(v) \o Push32(i) \o <<83, 89, 96, 0, 81, 0>>, <<>>) :
     pre \in {<<>>, Push32(WPat) \o Push32(W(0)) \o <<82>>},
     v \in {WMax, WPat, W(256)},
     i \in {W(0), W(31), W(32), W(MemoryLimit - 1), W(MemoryLimit), W2p64, WMax}}

\* CALLDATALOAD i over call data of several lengths.
DataSet ==
  {<<>>, <<17>>, <<17, 34, 51>>, [k \in 1..33 |-> 100 + k], [k \in 1..40 |-> 60 + k]}

LoadIndexes ==
  {W(0), W(1), W(2), W(3), W(8), W(32), W(33), W(39), W(40),
   WUsizeMax, W2p64, WMax, WNeg(31), WNeg(32), WNeg(33)}

ProgCallDataLoad ==
  {Prog(Push32(i) \o <<53, 0>>, d) : i \in LoadIndexes, d \in DataSet}

\* CALLDATACOPY / CODECOPY dst, src, len, then MSIZE.
ProgCopy ==
  {Prog(Push32(len) \o Push32(src) \o Push32(dst) \o <<op, 89, 0>>, <<17, 34, 51>>) :
     op \in {55, 57},
     dst \in {W(0), W(30), W(64), W(MemoryLimit - 1), WMax},
     src \in {W(0), W(2), W(5), W(100), WUsizeMax, WMax},
     len \in {W(0), W(1), W(4), W(33), W(MemoryLimit), WMax}}

\* RETURN / REVERT s, l on a written memory.
ProgRet ==
  {Prog(Push32(WPat) \o <<96, 0, 82>> \o Push32(l) \o Push32(s) \o <<op>>, <<>>) :
     op \in {243, 253},
     s \in {W(0), W(1), W(64), W(MemoryLimit), W2p64, WMax},
     l \in {W(0), W(1), W(32), W(MemoryLimit), W(MemoryLimit + 1), WMax}}

\* The scenarios of the specification, and the sizes and INVALID.
ProgScenario ==
  {Prog(<<96, 0, 81, 89, 96, 0, 82, 89>>, <<>>),
   Prog(<<96, 66, 96, 0, 82, 96, 32, 96, 0, 253>>, <<>>),
   Prog(<<96, 12, 96, 0, 82, 96, 32, 96, 0, 243>>, <<>>),
   Prog(<<56, 54, 88, 89, 129, 145, 80, 80, 254>>, <<17, 34, 51>>),
   Prog(<<>>, <<>>)}

\* One opcode on a stack that is too shallow for it.
ShallowOps ==
  {53, 55, 57, 80, 81, 82, 83, 86, 87, 128, 129, 143, 144, 145, 159,
   240, 241, 242, 243, 244, 245, 250, 253}

ProgUnderflow ==
  {Prog(pre \o <<op>>, <<>>) :
     pre \in {<<>>, <<96, 0>>, <<96, 0, 96, 1>>}, op \in ShallowOps}

\* A loop over a stack of one word that pushes 31 words with MSIZE, runs y
\* and x, and jumps back: a round that x ends leaves 32 more words, so the
\* 31 pushes of round 32 fill the stack to 1024, and y and then x meet
\* the full stack.
LoopCode(x, y) ==
  <<96, 0, 91>> \o [i \in 1..31 |-> 89] \o y \o x \o <<96, 2, 86>>

ProgOverflow ==
  {Prog(LoopCode(x, <<>>), <<>>) : x \in {<<88>>, <<89>>, <<56>>, <<54>>, <<128>>}}
    \cup {Prog(LoopCode(<<>>, <<53, 81, 144>>), <<>>)}

\* A call: the arguments pushed with PUSH1, the opcode, then MSIZE.  The
\* memory holds WPat at 0 before the call.
CallCode(op, to, in_off, in_len, out_off, out_len) ==
  Push32(WPat) \o <<96, 0, 82>>
    \o <<96, out_len, 96, out_off, 96, in_len, 96, in_off>>
    \o (IF op \in {241, 242} THEN <<96, 7>> ELSE <<>>)
    \o <<96, to, 96, 255, op, 89, 0>>

ProgCall ==
  {Prog(CallCode(x[1], x[2], 0, i, o[1], o[2]), <<>>) :
     x \in {<<241, 1>>, <<241, 2>>, <<241, 3>>, <<241, 4>>, <<241, 5>>,
            <<242, 2>>, <<244, 3>>, <<250, 2>>},
     i \in {0, 4},
     o \in {<<0, 0>>, <<0, 2>>, <<4, 32>>, <<MemoryLimit, 1>>}}

\* A create: CREATE or CREATE2 of len bytes of init code at off; the byte
\* at 0 is INVALID when the memory was written.
ProgCreate ==
  {Prog(pre \o (IF op = 245 THEN <<96, 9>> ELSE <<>>)
            \o <<96, x[2], 96, x[1], 96, 7, op, 89, 0>>, <<>>) :
     pre \in {<<>>, <<96, 254, 96, 0, 83>>},
     op \in {240, 245},
     x \in {<<0, 0>>, <<0, 1>>, <<MemoryLimit, 1>>}}

\* A byte that is no opcode, then MSIZE.
ProgOther ==
  {Prog(pre \o <<b, 89, 0>>, <<>>) :
     pre \in {<<>>, <<96, 7>>}, b \in {12, 33, 92, 165, 239, 246, 251}}

\* RETURNDATACOPY dst, src, len, then RETURNDATASIZE and MSIZE, on the
\* empty buffer of a frame that called nothing and on the buffer a
\* STATICCALL of the contract at address 2 left.
ProgReturnData ==
  {Prog(pre \o Push32(len) \o Push32(src) \o Push32(dst) \o <<62, 61, 89, 0>>, <<>>) :
     pre \in {<<>>, <<96, 0, 96, 0, 96, 0, 96, 0, 96, 2, 96, 255, 250>>},
     dst \in {W(0), W(40), WMax},
     src \in {W(0), W(1), W(3), W(4), WMax},
     len \in {W(0), W(1), W(3), W(4), WMax}}

\* DUPn or SWAPn on a stack of d different words, then STOP.
ProgSwapDup ==
  {Prog([i \in 1..(2 * d) |-> IF i % 2 = 1 THEN 96 ELSE i \div 2] \o <<op, 0>>, <<>>) :
     d \in {15, 16, 17}, op \in {128, 130, 143, 144, 146, 159}}

Programs ==
  ProgJump \cup ProgJumpI \cup ProgPush \cup ProgMem \cup ProgMStore8
    \cup ProgCallDataLoad \cup ProgCopy \cup ProgRet \cup ProgScenario
    \cup ProgUnderflow \cup ProgOverflow \cup ProgCall \cup ProgCreate
    \cup ProgOther \cup ProgMLoad \cup ProgReturnData \cup ProgSwapDup

\* ------------------------------------------------ calls on the backend
Addresses == {Addr(1), Addr(2)}

Indexes == {W(1), W(2)}

Basic(balance, nonce) ==
  [balance |-> U256_from_usize(balance), nonce |-> U256_from_usize(nonce)]

None == [some |-> FALSE, value |-> <<>>]

Some(code) == [some |-> TRUE, value |-> code]

\* Apply::Modify
Modify(address, basic, code, storage, reset_storage) ==
  [kind |-> "Modify", address |-> address, basic |-> basic, code |-> code,
   storage |-> storage, reset_storage |-> reset_storage]

\* Apply::Delete
Delete(address) ==
  [kind |-> "Delete", address |-> address, basic |-> Basic(0, 0), code |-> None,
   storage |-> <<>>, reset_storage |-> FALSE]

\* An item of a storage iterator: the word v written at the index i.
Slot(i, v) == [index |-> W(i), value |-> W(v)]

\* The records of the model. On the address 1: two slots written on a
\* funded account; slot 2 written then zeroed and slot 1 written again;
\* the storage reset, slot 1 zeroed then written; a slot written on an
\* account left empty; code and nonce set; code cleared, the storage reset
\* and the account left empty; its deletion. On the address 2: a slot
\* written on a funded account.
Records ==
  {Modify(Addr(1), Basic(1, 0), None, <<Slot(1, 5), Slot(2, 6)>>, FALSE),
   Modify(Addr(1), Basic(1, 0), None, <<Slot(2, 6), Slot(2, 0), Slot(1, 6)>>, FALSE),
   Modify(Addr(1), Basic(1, 0), None, <<Slot(1, 0), Slot(1, 5)>>, TRUE),
   Modify(Addr(1), Basic(0, 0), None, <<Slot(1, 5)>>, FALSE),
   Modify(Addr(1), Basic(0, 1), Some(<<0>>), <<>>, FALSE),
   Modify(Addr(1), Basic(0, 0), Some(<<>>), <<>>, TRUE),
   Modify(Addr(2), Basic(1, 0), None, <<Slot(2, 6)>>, FALSE),
   Delete(Addr(1))}

\* The values of an apply call: no record, one record or two records.
Diffs ==
  {<<>>} \cup {<<r>> : r \in Records} \cup {<<r, s>> : r \in Records, s \in Records}

Log(k) == [address |-> Addr(1), topics |-> <<W(k)>>, data |-> <<k>>]

ApplyCalls ==
  {[values |-> v, logs |-> <<>>, delete_empty |-> d] : v \in Diffs, d \in BOOLEAN}
    \cup {[values |-> v, logs |-> <<Log(1), Log(2)>>, delete_empty |-> FALSE] :
            v \in {d \in Diffs : Len(d) <= 1}}

Account(balance, nonce, code, storage) ==
  [nonce |-> U256_from_usize(nonce), balance |-> U256_from_usize(balance),
   storage |-> storage, code |-> code]

\* The storage map of the writes of an iterator, zero words kept.
RECURSIVE StorageOf(_)
StorageOf(iter) ==
  IF iter = <<>>
  THEN BTreeMap_new
  ELSE BTreeMap_insert(StorageOf(Tail(iter)), Head(iter).index, Head(iter).value)

\* The states a backend is made with: no account; a contract with two
\* slots; an empty account that has a slot, beside a funded one; an
\* account that holds a slot of the zero word.
BackendStates ==
  {BTreeMap_new,
   BTreeMap_insert(BTreeMap_new, Addr(1),
     Account(0, 1, <<0>>, StorageOf(<<Slot(1, 5), Slot(2, 6)>>))),
   BTreeMap_insert(
     BTreeMap_insert(BTreeMap_new, Addr(1), Account(0, 0, <<>>, StorageOf(<<Slot(1, 5)>>))),
     Addr(2), Account(1, 0, <<>>, BTreeMap_new)),
   BTreeMap_insert(BTreeMap_new, Addr(1), Account(1, 0, <<>>, StorageOf(<<Slot(1, 0)>>)))}

\* U256::max_value() - k
U256_below_max(k) ==
  U256_overflowing_sub([i \in 1..WordBytes |-> 255], U256_from_usize(k)).value

\* The block numbers of the model: around zero, around a chain of 300
\* blocks and its 256th and 257th ancestor, and around 2^256 - 1.
BlockNumbers ==
  {U256_from_usize(n) : n \in {0, 1, 2, 3, 42, 43, 44, 45, 297, 299, 300, 301}}
    \cup {U256_below_max(k) : k \in {0, 1, 3, 256, 257, 258}}

\* block_hashes of n blocks, the most recent first: block i before the
\* current one has the hash W(i).
Hashes(n) == [i \in 1..n |-> W(i)]

Vicinities ==
  {Vicinity(U256_from_usize(n), Hashes(len)) :
     n \in {0, 1, 3, 300}, len \in {0, 1, 3, HashWindow, HashWindow + 1}}
    \cup {Vicinity(U256_below_max(0), Hashes(len)) :
            len \in {0, 3, HashWindow, HashWindow + 1}}

\* apply(values, logs, delete_empty)
Apply ==
  /\ applies < MaxApplies
  /\ \E c \in ApplyCalls :
       /\ backend' = MemoryBackend_apply(backend, c.values, c.logs, c.delete_empty)
       /\ called' = Call("apply", backend,
                      [NoArgs EXCEPT !.values = c.values, !.logs = c.logs,
                                     !.delete_empty = c.delete_empty],
                      [panic |-> FALSE, value |-> H256_default])
  /\ applies' = applies + 1
  /\ UNCHANGED evars

\* storage(address, index)
Storage ==
  /\ \E address \in Addresses, index \in Indexes :
       called' = Call("storage", backend,
                   [NoArgs EXCEPT !.address = address, !.index = index],
                   [panic |-> FALSE, value |-> MemoryBackend_storage(backend, address, index)])
  /\ UNCHANGED <<backend, applies>>
  /\ UNCHANGED evars

\* block_hash(number)
BlockHash ==
  /\ \E number \in BlockNumbers :
       called' = Call("block_hash", backend, [NoArgs EXCEPT !.number = number],
                   MemoryBackend_block_hash(backend, number))
  /\ UNCHANGED <<backend, applies>>
  /\ UNCHANGED evars

\* ------------------------------------------------------ specification
RootContext == [address |-> Addr(1), caller |-> Addr(9), apparent_value |-> U256_zero]

\* Runtime::new on the program p, nothing stepped yet.
RuntimeInit(p) ==
  /\ machine = Machine_new(p.code, p.data, MemoryLimit)
  /\ return_data_buffer = <<>>
  /\ context = RootContext
  /\ status = "Running"
  /\ interrupt = NoInterrupt
  /\ suspended = <<>>
  /\ last = [op |-> "None", pre |-> Runtime_new(p.code, p.data, RootContext),
             reason |-> "None", output |-> <<>>,
             prior |-> [op |-> "None", stack |-> <<>>]]
  /\ resteps = 0

\* MemoryBackend::new(vicinity, state), nothing called yet.
BackendInit(vicinity, state) ==
  /\ backend = MemoryBackend_new(vicinity, state)
  /\ called = NoCall(MemoryBackend_new(vicinity, state))
  /\ applies = 0

Init ==
  /\ \E p \in Programs : RuntimeInit(p)
  /\ BackendInit(Vicinity(U256_zero, <<>>), BTreeMap_new)

Next ==
  \/ StepStop
  \/ StepCodeSize
  \/ StepCodeCopy
  \/ StepCallDataLoad
  \/ StepCallDataSize
  \/ StepCallDataCopy
  \/ StepPop
  \/ StepMLoad
  \/ StepMStore
  \/ StepMStore8
  \/ StepJump
  \/ StepJumpI
  \/ StepPC
  \/ StepMSize
  \/ StepJumpDest
  \/ StepPush
  \/ StepDup
  \/ StepSwap
  \/ StepReturn
  \/ StepRevert
  \/ StepInvalid
  \/ StepEndOfCode
  \/ StepExited
  \/ StepCall
  \/ StepCreate
  \/ StepOther
  \/ StepReturnDataSize
  \/ StepReturnDataCopy
  \/ HostEnter
  \/ HostReturn
  \/ HostFeedback

Spec == Init /\ [][Next]_vars

\* The MemoryBackend alone: a backend made with a state of the model, then
\* apply calls and storage reads.
InitBackend ==
  /\ RuntimeInit(Prog(<<0>>, <<>>))
  /\ \E state \in BackendStates : BackendInit(Vicinity(U256_zero, <<>>), state)

NextBackend ==
  \/ Apply
  \/ Storage

BackendSpec == InitBackend /\ [][NextBackend]_vars

\* block_hash alone: a backend made with a vicinity of the model.
InitBlockHash ==
  /\ RuntimeInit(Prog(<<0>>, <<>>))
  /\ \E vicinity \in Vicinities : BackendInit(vicinity, BTreeMap_new)

NextBlockHash == BlockHash

BlockHashSpec == InitBlockHash /\ [][NextBlockHash]_vars

\* ------------------------------------------------------------- claims
\* The Machine before the last step, and the operands that step popped.
Pre == last.pre.machine

PreDepth == Len(Pre.stack)

\* The k-th word from the top of the stack before the last step.
Operand(k) == U256_from_big_endian(Pre.stack[PreDepth + 1 - k])

\* The starts of the instructions of a code: each PUSHn is followed by its
\* n immediate bytes.
RECURSIVE InstructionStarts(_, _)
InstructionStarts(code, p) ==
  IF p >= Len(code) THEN {}
  ELSE {p} \cup InstructionStarts(code, p + 1 + PushLen(code[p + 1]))

\* d is a JUMPDEST byte of the code outside every PUSHn immediate.
IsJumpDest(code, d) ==
  /\ U256_small(d)
  /\ U256_as_usize(d) < Len(code)
  /\ code[U256_as_usize(d) + 1] = 91
  /\ U256_as_usize(d) \in InstructionStarts(code, 0)

\* The last step was a JUMP, or a JUMPI whose condition is not zero.
JumpTaken ==
  \/ last.op = "Jump" /\ PreDepth >= 1
  \/ last.op = "JumpI" /\ PreDepth >= 2 /\ Operand(2) # U256_zero

\* C1: JUMP d, and JUMPI d,c with c # 0, set the position to d when d is a
\* JUMPDEST byte outside every PUSHn immediate, and for every other d (no
\* JUMPDEST, inside an immediate, at or past the end of the code, or no
\* machine index) the frame exits Error::InvalidJump.
C1_JumpOnlyToJumpDest ==
  JumpTaken =>
    IF IsJumpDest(Pre.code, Operand(1))
    THEN machine.position = PositionOk(U256_as_usize(Operand(1)))
    ELSE machine.position = PositionErr("Error::InvalidJump")

\* C1 witness: a jump to a 0x5B byte inside a PUSHn immediate was refused.
C1_Witness ==
  /\ JumpTaken
  /\ U256_lt_len(Operand(1), Len(Pre.code))
  /\ Pre.code[U256_as_usize(Operand(1)) + 1] = 91
  /\ machine.position = PositionErr("Error::InvalidJump")

\* The last step was a PUSHn whose immediate crosses the end of the code,
\* on a stack with room for the word.
PushTruncated ==
  /\ last.op = "Push"
  /\ PreDepth < StackLimit
  /\ Pre.position.pos + 1 + Opcode_n(Pre.code[Pre.position.pos + 1]) > Len(Pre.code)

\* C2: a PUSHn whose immediate crosses the end of the code pushes the bytes
\* that are there followed by zero bytes up to n bytes, read big-endian,
\* and the frame then stops at the end of the code.
C2_PushPadsRight ==
  PushTruncated =>
    LET n == Opcode_n(Pre.code[Pre.position.pos + 1])
        there == SubSeq(Pre.code, Pre.position.pos + 2, Len(Pre.code))
    IN  /\ machine.stack[Len(machine.stack)]
             = Zeros(WordBytes - n) \o there \o Zeros(n - Len(there))
        /\ machine.position = PositionOk(Pre.position.pos + 1 + n)

\* C3: JUMPI d,c with c = 0 pops both operands and continues at pc + 1,
\* whatever d is.
C3_JumpISkips ==
  (last.op = "JumpI" /\ PreDepth >= 2 /\ Operand(2) = U256_zero) =>
    /\ machine.position = PositionOk(Pre.position.pos + 1)
    /\ machine.stack = SubSeq(Pre.stack, 1, PreDepth - 2)

\* The last two steps were MSTORE(i, v) and then MLOAD(i), with i + 32
\* within the memory limit.
StoreThenLoad ==
  /\ last.op = "MLoad" /\ last.prior.op = "MStore"
  /\ PreDepth >= 1 /\ Len(last.prior.stack) >= 2
  /\ Operand(1) = U256_from_big_endian(last.prior.stack[Len(last.prior.stack)])
  /\ U256_small(Operand(1))
  /\ U256_as_usize(Operand(1)) + 32 <= Pre.memory.limit

\* C4: MSTORE(i, v) followed by MLOAD(i), with i + 32 within the memory
\* limit, pushes exactly v, whatever the memory held before.
C4_StoreLoadRoundTrip ==
  StoreThenLoad =>
    /\ machine.position = PositionOk(Pre.position.pos + 1)
    /\ machine.stack = SubSeq(Pre.stack, 1, PreDepth - 1)
                          \o <<last.prior.stack[Len(last.prior.stack) - 1]>>

\* C4 witness: the round trip of a word of 32 different bytes at an index
\* that is no multiple of 32.
C4_Witness ==
  /\ StoreThenLoad
  /\ Operand(1) = U256_from_usize(33)
  /\ Pre.memory.effective_len = 96
  /\ machine.stack[Len(machine.stack)] = WPat

\* The byte of the call data at index i + k, for a 256-bit i given by its
\* base-256 digits: 0 when i + k is 2^256 or more, or is no index of data.
DataByte(data, i, k) ==
  IF /\ U256_small(i)
     /\ U256_as_usize(i) + k < Len(data)
  THEN data[U256_as_usize(i) + k + 1]
  ELSE 0

\* C5: CALLDATALOAD i on a stack of at least one word never fails: pc
\* advances by 1 and the word pushed in place of i has data[i + k] as its
\* k-th byte when i + k does not overflow and is below data.len(), else 0.
C5_CallDataLoadPads ==
  (last.op = "CallDataLoad" /\ PreDepth >= 1) =>
    /\ status = "Running"
    /\ machine.position = PositionOk(Pre.position.pos + 1)
    /\ machine.stack = SubSeq(Pre.stack, 1, PreDepth - 1)
         \o <<[k \in 1..WordBytes |-> DataByte(Pre.data, Operand(1), k - 1)]>>
    /\ (~U256_lt_len(Operand(1), Len(Pre.data))
          => machine.stack[Len(machine.stack)] = Zeros(WordBytes))

\* C5 witness: a load that starts inside the call data and runs past its
\* end.
C5_Witness ==
  /\ last.op = "CallDataLoad" /\ PreDepth >= 1
  /\ Operand(1) = U256_from_usize(8)
  /\ Len(Pre.data) = 33
  /\ machine.stack[Len(machine.stack)] = SubSeq(Pre.data, 9, 33) \o Zeros(7)

\* The number of stack items an opcode needs; n is the n of DUPn and SWAPn.
Needs(op, n) ==
  CASE op \in {"CallDataLoad", "Pop", "MLoad", "Jump"} -> 1
    [] op \in {"MStore", "MStore8", "JumpI", "Return", "Revert"} -> 2
    [] op \in {"CodeCopy", "CallDataCopy", "ReturnDataCopy", "Create"} -> 3
    [] op = "Create2" -> 4
    [] op \in {"DelegateCall", "StaticCall"} -> 6
    [] op \in {"Call", "CallCode"} -> 7
    [] op = "Dup" -> n
    [] op = "Swap" -> n + 1
    [] OTHER -> 0

\* The opcodes that leave the stack one deeper than they found it.
Pushers == {"Push", "Dup", "PC", "MSize", "CodeSize", "CallDataSize", "ReturnDataSize"}

\* The last step ran an opcode of the code of the frame.
OpcodeStep == last.op \notin {"None", "HostEnter", "Resume", "Exited", "EndOfCode"}

PreN == Opcode_n(Pre.code[Pre.position.pos + 1])

\* C6: the stack depth of every frame is in 0..1024; an opcode that finds
\* fewer items than it needs exits Error::StackUnderflow, and an opcode
\* that would push on a stack of 1024 exits Error::StackOverflow.
C6_StackDepthBounded ==
  /\ Len(machine.stack) \in 0..StackLimit
  /\ \A f \in 1..Len(suspended) : Len(suspended[f].rt.machine.stack) \in 0..StackLimit
  /\ (OpcodeStep /\ PreDepth < Needs(last.op, PreN))
       => (status = "Exited" /\ machine.position = PositionErr("Error::StackUnderflow"))
  /\ (OpcodeStep /\ last.op \in Pushers /\ PreDepth >= Needs(last.op, PreN)
        /\ PreDepth = StackLimit)
       => (/\ status = "Exited"
           /\ machine.position = PositionErr("Error::StackOverflow")
           /\ machine.stack = Pre.stack)
  /\ (OpcodeStep /\ last.op \in {"CallDataLoad", "MLoad"} /\ PreDepth = StackLimit)
       => machine.position.reason # "Error::StackOverflow"

\* C6 witness: DUP1 on a stack of 1024 words exited Error::StackOverflow.
C6_Witness ==
  /\ last.op = "Dup" /\ PreDepth = StackLimit
  /\ machine.position = PositionErr("Error::StackOverflow")
  /\ Len(machine.stack) = StackLimit

\* The last step was a step of the frame that runs now, whose state
\* before the step is Pre.
FrameStep == last.op \notin {"None", "HostEnter"}

\* The last step was MLOAD or MSTORE at a word the memory covered already.
Retouch ==
  /\ last.op \in {"MLoad", "MStore"}
  /\ PreDepth >= Needs(last.op, 0)
  /\ U256_small(Operand(1))
  /\ U256_as_usize(Operand(1)) + 32 <= Pre.memory.effective_len

\* C7: memory.effective_len() of every frame is a multiple of 32, it is
\* the value MSIZE pushes, no step of a frame lowers it, and MLOAD or
\* MSTORE at a word that is covered already leaves it as it is.
C7_EffectiveLenWordsMonotone ==
  /\ machine.memory.effective_len % 32 = 0
  /\ \A f \in 1..Len(suspended) : suspended[f].rt.machine.memory.effective_len % 32 = 0
  /\ FrameStep => machine.memory.effective_len >= Pre.memory.effective_len
  /\ (last.op = "MSize" /\ PreDepth < StackLimit)
       => machine.stack[Len(machine.stack)] = W(Pre.memory.effective_len)
  /\ Retouch => machine.memory.effective_len = Pre.memory.effective_len

\* C7 witness: MLOAD(0), MSIZE, MSTORE(0, _), MSIZE has pushed 32 twice.
C7_Witness ==
  /\ last.op = "MSize" /\ last.prior.op = "MStore"
  /\ last.prior.stack = <<W(0), W(32), W(0)>>
  /\ machine.stack = <<W(0), W(32)>>
  /\ machine.memory.effective_len = 32

\* C8: a step on a Machine that has exited returns the exit it took and
\* leaves the position, stack, memory and return_range as they were, and
\* so does every step after it.
C8_ExitedStepIsNoOp ==
  last.op = "Exited" =>
    /\ Runtime = last.pre
    /\ status = "Exited" /\ ~machine.position.ok
    /\ last.reason = Pre.position.reason
    /\ last.reason \in {"Succeed::Stopped", "Succeed::Returned", "Revert::Reverted",
                         "Error::StackUnderflow", "Error::StackOverflow",
                         "Error::InvalidJump", "Error::DesignatedInvalid",
                         "Error::OutOfGas", "Error::OutOfOffset",
                         "Fatal::NotSupported"}

\* C8 witness: a frame that returned a range of its memory was stepped
\* again, more than once.
C8_Witness ==
  /\ last.op = "Exited" /\ last.prior.op = "Exited"
  /\ resteps = MaxResteps
  /\ machine.position = PositionErr("Succeed::Returned")
  /\ machine.return_range.start # machine.return_range.end
  /\ machine.memory.effective_len > 0

\* What one step does to a frame that an interrupt has paused: the frames
\* the host keeps stay as they are; a frame enters Interrupted only from
\* Running, by a call or create opcode the handler trapped, at the pc of
\* that opcode; a step on the Interrupted frame either hands it unchanged
\* to the host, which runs a nested frame, or resumes it; and the frame a
\* finished nested frame gives way to is its caller, resumed from the
\* stack, position and context the host kept.
FrozenStep ==
  LET n == Len(suspended)
      top == suspended[n].rt
  IN  /\ \A f \in 1..Min(n, Len(suspended')) : suspended'[f] = suspended[f]
      /\ Len(suspended') \in {n - 1, n, n + 1}
      /\ (last'.op \in CallOps \cup CreateOps /\ last'.reason = "None")
           => status' \in {"Interrupted", "Exited"}
      /\ (status' = "Interrupted" /\ Len(suspended') = n /\ last'.op # "Resume")
           => \/ UNCHANGED <<machine, return_data_buffer, context, status, interrupt>>
              \/ /\ status = "Running"
                 /\ last'.op \in CallOps \cup CreateOps
                 /\ machine'.position = machine.position
                 /\ context' = context
      /\ status = "Interrupted"
           => \/ UNCHANGED <<machine, return_data_buffer, context, status, interrupt>>
              \/ /\ Len(suspended') = n + 1
                 /\ suspended'[n + 1].rt = Runtime
              \/ /\ last'.op = "Resume"
                 /\ suspended' = suspended
                 /\ status' \in {"Running", "Exited"}
      /\ Len(suspended') = n + 1 => status = "Interrupted"
      /\ Len(suspended') = n - 1
           => /\ last'.op = "Resume"
              /\ top.status = "Interrupted"
              /\ context' = top.context
              /\ machine'.code = top.machine.code
              /\ status' = "Running"
                   => /\ machine'.position = PositionOk(top.machine.position.pos + 1)
                      /\ SubSeq(machine'.stack, 1, Len(machine'.stack) - 1)
                           = top.machine.stack
                      /\ machine'.memory.effective_len = top.machine.memory.effective_len

\* C9: a frame whose call or create opcode the handler trapped is
\* Interrupted and frozen: no opcode of it runs and its state is kept as
\* it is, whatever frames the host runs in between, until resume.
C9_InterruptedFrameFrozen == [][FrozenStep]_vars

\* C9 witness: a contract that called itself, twice nested: two frames of
\* its code are kept Interrupted while a third runs its opcodes.
C9_Witness ==
  /\ Len(suspended) = 2
  /\ suspended[1].rt.machine.code = machine.code
  /\ suspended[2].rt.machine.code = machine.code
  /\ suspended[1].rt.status = "Interrupted"
  /\ status = "Running" /\ machine.stack # <<>>

\* The opcode the frame of the last step stood at, and the answer of a
\* handler that returns Exit with the tuple the last step carried.
PreOp == Opcode_parse(Pre.code[Pre.position.pos + 1])

SyncAnswer == [kind |-> "Exit", reason |-> last.reason, output |-> last.output]

\* The output range of the call opcode the frame stood at, and the number
\* of output bytes copied to it.
OutOffset == U256_as_usize(Operand(IF PreOp \in {"Call", "CallCode"} THEN 6 ELSE 5))

OutLen == U256_as_usize(Operand(IF PreOp \in {"Call", "CallCode"} THEN 7 ELSE 6))

C11_OtherOrDesignatedInvalid ==
  last.op = "Other" =>
    \/ status = "Running" /\ machine.position = PositionOk(Pre.position.pos + 1)
    \/ status = "Exited" /\ machine.position = PositionErr("Error::DesignatedInvalid")

\* The records of the last apply call, the state after the first j of
\* them, the last of them that writes an index of an address (0 when none
\* does) and the word it writes there last.
Values == called.args.values

StateAfter(j) ==
  apply_values(called.pre.state, SubSeq(Values, 1, j), called.args.delete_empty)

WritesAt(j, index) == {n \in 1..Len(Values[j].storage) : Values[j].storage[n].index = index}

Writers(address, index) ==
  {j \in 1..Len(Values) :
     Values[j].kind = "Modify" /\ Values[j].address = address /\ WritesAt(j, index) # {}}

Last(S) == IF S = {} THEN 0 ELSE CHOOSE n \in S : \A m \in S : m <= n

LastWriter(address, index) == Last(Writers(address, index))

LastValue(j, index) == Values[j].storage[Last(WritesAt(j, index))].value

HasSlot(state, address, index) ==
  address \in DOMAIN state /\ index \in DOMAIN state[address].storage

\* Whether what the record k wrote to the address is still there after the
\* call: no record from k on took the account out of the state, and no
\* later record of the address reset its storage.
Survives(address, k) ==
  \A j \in k..Len(Values) :
    Values[j].address = address =>
      /\ address \in DOMAIN StateAfter(j)
      /\ j > k => ~Values[j].reset_storage

\* C12 as stated: after apply(values, [], delete_empty) on Modify records,
\* storage(address, index) is the last word written to the index of the
\* address when that word is not zero, and the index has no slot when it is.
C12_ReadsLastWrite ==
  (called.op = "apply" /\ \A j \in 1..Len(Values) : Values[j].kind = "Modify") =>
    \A address \in Addresses, index \in Indexes :
      LastWriter(address, index) > 0 =>
        IF LastValue(LastWriter(address, index), index) = H256_default
        THEN /\ ~HasSlot(backend.state, address, index)
             /\ MemoryBackend_storage(backend, address, index) = H256_default
        ELSE MemoryBackend_storage(backend, address, index)
               = LastValue(LastWriter(address, index), index)

\* C12, amended: after apply on any records, an index whose last write is
\* the zero word has no slot and reads zero; an index whose last write is
\* not zero reads that word when the write survives the call, that is
\* when no record from the writing one on took the account out of the
\* state and no later record of the address reset its storage.
C12_ReadsSurvivingLastWrite ==
  called.op = "apply" =>
    \A address \in Addresses, index \in Indexes :
      LastWriter(address, index) > 0 =>
        IF LastValue(LastWriter(address, index), index) = H256_default
        THEN /\ ~HasSlot(backend.state, address, index)
             /\ MemoryBackend_storage(backend, address, index) = H256_default
        ELSE Survives(address, LastWriter(address, index)) =>
               MemoryBackend_storage(backend, address, index)
                 = LastValue(LastWriter(address, index), index)

\* C12 witness: with delete_empty set, one record wrote the slots 1 and 2
\* of an account that had them and the next zeroed slot 2 and wrote slot 1
\* again: slot 1 reads the second word, slot 2 is gone.
C12_Witness ==
  /\ called.op = "apply" /\ called.args.delete_empty /\ Len(Values) = 2
  /\ HasSlot(called.pre.state, Addr(1), W(2))
  /\ LastWriter(Addr(1), W(1)) = 2 /\ Writers(Addr(1), W(1)) = {1, 2}
  /\ LastValue(1, W(1)) = W(5) /\ LastValue(2, W(1)) = W(6)
  /\ LastValue(2, W(2)) = H256_default
  /\ Survives(Addr(1), 2)
  /\ MemoryBackend_storage(backend, Addr(1), W(1)) = W(6)
  /\ ~HasSlot(backend.state, Addr(1), W(2))

\* How many blocks before the current one the block asked for last is: 1
\* for the parent. Read only for a number below the current one.
BlocksBack ==
  U256_overflowing_sub(called.pre.vicinity.block_number, called.args.number).value

\* Whether the block asked for is one of the HashWindow blocks before the
\* current one.
InWindow ==
  /\ U256_lt(called.args.number, called.pre.vicinity.block_number)
  /\ U256_le_len(BlocksBack, HashWindow)

\* The hash block_hashes records for the block asked for, the most recent
\* block first; the zero hash when it records none.
RecordedHash ==
  IF U256_le_len(BlocksBack, Len(called.pre.vicinity.block_hashes))
  THEN called.pre.vicinity.block_hashes[U256_as_usize(BlocksBack)]
  ELSE H256_default

\* C13 as stated: block_hash(n) never indexes block_hashes out of bounds,
\* and returns the recorded hash of block n when n is one of the 256 blocks
\* before the current one and the zero hash for every other n, whatever
\* the length of block_hashes.
C13_BlockHashWindow ==
  called.op = "block_hash" =>
    /\ ~called.result.panic
    /\ called.result.value = IF InWindow THEN RecordedHash ELSE H256_default

\* The last record of the last apply call, the state it met, and the code
\* its account has once it is processed.
LastRecord == Values[Len(Values)]

StateBefore == StateAfter(Len(Values) - 1)

CodeBefore ==
  IF LastRecord.address \in DOMAIN StateBefore
  THEN StateBefore[LastRecord.address].code
  ELSE <<>>

CodeAfter == IF LastRecord.code.some THEN LastRecord.code.value ELSE CodeBefore

LeftEmpty ==
  /\ LastRecord.basic.nonce = U256_zero
  /\ LastRecord.basic.balance = U256_zero
  /\ CodeAfter = <<>>

\* C14: once apply has processed a Modify record of an address, the
\* address is out of the state when delete_empty is set and the account is
\* left with zero nonce, zero balance and empty code, whatever its
\* storage; otherwise it is in the state with the balance and the nonce of
\* the record and with its code replaced only by a code the record gives.
\* Once apply has processed a Delete record the address is out of the state.
C14_ModifyKeepsOrRemoves ==
  (called.op = "apply" /\ Len(Values) > 0) =>
    IF LastRecord.kind = "Delete" \/ (called.args.delete_empty /\ LeftEmpty)
    THEN ~MemoryBackend_exists(backend, LastRecord.address)
    ELSE /\ MemoryBackend_exists(backend, LastRecord.address)
         /\ backend.state[LastRecord.address].balance = LastRecord.basic.balance
         /\ backend.state[LastRecord.address].nonce = LastRecord.basic.nonce
         /\ backend.state[LastRecord.address].code = CodeAfter

\* C14 witness: under delete_empty, a Modify with zero balance, zero nonce
\* and no code wrote a slot of an account that had no code and a slot
\* already: the account is out of the state.
C14_Witness ==
  /\ called.op = "apply" /\ called.args.delete_empty /\ Len(Values) > 0
  /\ LastRecord = Modify(Addr(1), Basic(0, 0), None, <<Slot(1, 5)>>, FALSE)
  /\ HasSlot(StateBefore, Addr(1), W(1))
  /\ LeftEmpty
  /\ ~MemoryBackend_exists(backend, Addr(1))

\* Whether no account of a state holds a slot of the zero word.
NoZeroSlot(state) ==
  \A address \in DOMAIN state :
    \A index \in DOMAIN state[address].storage :
      state[address].storage[index] # H256_default

\* The indexes the last record leaves with a word that is not zero, by
\* the last write of its iterator to each.
WrittenNonZero ==
  {index \in {LastRecord.storage[n].index : n \in 1..Len(LastRecord.storage)} :
     LastValue(Len(Values), index) # H256_default}

\* C20: an apply call on a state without a slot of the zero word leaves a
\* state without one; and the account of a Modify with reset_storage holds
\* exactly the slots its own iterator leaves with a word that is not zero.
C20_NoZeroSlotAndReset ==
  called.op = "apply" =>
    /\ NoZeroSlot(called.pre.state) => NoZeroSlot(backend.state)
    /\ (/\ Len(Values) > 0
        /\ LastRecord.kind = "Modify"
        /\ LastRecord.reset_storage
        /\ MemoryBackend_exists(backend, LastRecord.address)) =>
         /\ DOMAIN backend.state[LastRecord.address].storage = WrittenNonZero
         /\ \A index \in WrittenNonZero :
              backend.state[LastRecord.address].storage[index]
                = LastValue(Len(Values), index)

\* C20 witness: the second apply call on a backend made without a zero
\* slot ends with a Modify that resets the storage of an account holding
\* slot 2, zeroes slot 1 and then writes it: the account holds slot 1 only.
C20_Witness ==
  /\ called.op = "apply" /\ applies = MaxApplies /\ Len(Values) > 0
  /\ NoZeroSlot(called.pre.state)
  /\ LastRecord =
       Modify(Addr(1), Basic(1, 0), None, <<Slot(1, 0), Slot(1, 5)>>, TRUE)
  /\ HasSlot(StateBefore, Addr(1), W(2))
  /\ DOMAIN backend.state[Addr(1)].storage = {W(1)}
  /\ backend.state[Addr(1)].storage[W(1)] = W(5)

\* C15 as stated: RETURN s, l and REVERT s, l whose expansion succeeds,
\* l = 0 with any s included, pop their operands, leave the memory the
\* expansion made and the return range [s, s + l), and exit, RETURN with
\* Succeed::Returned and REVERT with Revert::Reverted, neither aborting.
C15_ReturnRevertAlike ==
  (/\ last.op \in {"Return", "Revert"}
   /\ PreDepth >= 2
   /\ Memory_resize_offset(Pre.memory, Operand(1), Operand(2)).ok) =>
    /\ status = "Exited"
    /\ machine.position =
         PositionErr(IF last.op = "Return" THEN "Succeed::Returned" ELSE "Revert::Reverted")
    /\ machine.return_range =
         [start |-> Operand(1), end |-> U256_checked_add(Operand(1), Operand(2)).value]
    /\ machine.stack = SubSeq(Pre.stack, 1, PreDepth - 2)
    /\ machine.memory = Memory_resize_offset(Pre.memory, Operand(1), Operand(2)).memory

\* The opcodes that expand the memory, the offset at which the last step
\* had to expand it and the length it had to cover from there.
Expanders == {"MLoad", "MStore", "MStore8", "CallDataCopy", "CodeCopy", "Return", "Revert"}

ExpandOffset == Operand(1)

ExpandLen ==
  CASE last.op \in {"MLoad", "MStore"} -> U256_from_usize(WordBytes)
    [] last.op = "MStore8" -> U256_one
    [] last.op \in {"CallDataCopy", "CodeCopy"} -> Operand(3)
    [] OTHER -> Operand(2)

\* Whether the end of that expansion overflows or lies beyond the limit.
ExpandsTooFar ==
  /\ ExpandLen # U256_zero
  /\ \/ U256_checked_add(ExpandOffset, ExpandLen).overflow
     \/ U256_gt(U256_checked_add(ExpandOffset, ExpandLen).value,
                 U256_from_usize(Pre.memory.limit))

\* C16: an opcode whose memory expansion ends past 2^256 - 1 or past the
\* memory limit exits the frame with Fatal NotSupported, and leaves the
\* memory, its effective length and the return range as they were.
C16_ExpansionFailureIsFatal ==
  (last.op \in Expanders /\ PreDepth >= Needs(last.op, 0) /\ ExpandsTooFar) =>
    /\ status = "Exited"
    /\ machine.position = PositionErr("Fatal::NotSupported")
    /\ machine.memory = Pre.memory
    /\ machine.return_range = Pre.return_range

\* C16 witness: a RETURN whose range ends past 2^256 - 1, on a memory
\* that holds a word: the frame exited with Fatal NotSupported.
C16_Witness ==
  /\ last.op = "Return" /\ PreDepth >= 2
  /\ U256_checked_add(ExpandOffset, ExpandLen).overflow
  /\ Pre.memory.effective_len = WordBytes
  /\ machine.position = PositionErr("Fatal::NotSupported")
  /\ machine.memory = Pre.memory

\* The bytes the last copy opcode copies from, and whether the source
\* range [src, src + len) of its operands ends past them.
CopySource ==
  CASE last.op = "CodeCopy" -> Pre.code
    [] last.op = "CallDataCopy" -> Pre.data
    [] OTHER -> last.pre.return_data_buffer

SourcePastEnd ==
  \/ U256_checked_add(Operand(2), Operand(3)).overflow
  \/ U256_gt(U256_checked_add(Operand(2), Operand(3)).value,
              U256_from_usize(Len(CopySource)))

\* The byte of the source at src + i, zero past its end.
CopiedByte(i) ==
  IF /\ ~U256_checked_add(Operand(2), U256_from_usize(i)).overflow
     /\ U256_lt_len(U256_checked_add(Operand(2), U256_from_usize(i)).value, Len(CopySource))
  THEN CopySource[U256_as_usize(U256_checked_add(Operand(2), U256_from_usize(i)).value) + 1]
  ELSE 0

C19_SwapDupExact ==
  /\ last.op \in {"Swap", "Dup"} =>
       /\ PreN \in 1..16
       /\ machine.memory = Pre.memory
  /\ last.op = "Swap" =>
       IF PreDepth <= PreN
       THEN /\ status = "Exited"
            /\ machine.position = PositionErr("Error::StackUnderflow")
            /\ machine.stack = Pre.stack
       ELSE /\ status = "Running"
            /\ machine.position = PositionOk(Pre.position.pos + 1)
            /\ machine.stack =
                 [Pre.stack EXCEPT ![PreDepth] = Pre.stack[PreDepth - PreN],
                                   ![PreDepth - PreN] = Pre.stack[PreDepth]]
  /\ last.op = "Dup" =>
       IF PreDepth < PreN
       THEN /\ status = "Exited"
            /\ machine.position = PositionErr("Error::StackUnderflow")
            /\ machine.stack = Pre.stack
       ELSE IF PreDepth = StackLimit
       THEN /\ status = "Exited"
            /\ machine.position = PositionErr("Error::StackOverflow")
            /\ machine.stack = Pre.stack
       ELSE /\ status = "Running"
            /\ machine.position = PositionOk(Pre.position.pos + 1)
            /\ machine.stack = Append(Pre.stack, Pre.stack[PreDepth - PreN + 1])

\* C19 witness: SWAP16 on a stack of 16 different words, one short of
\* what it needs, exited Error::StackUnderflow and left the 16 words.
C19_Witness ==
  /\ last.op = "Swap" /\ PreN = 16 /\ PreDepth = 16
  /\ Pre.stack[16] # Pre.stack[1]
  /\ machine.position = PositionErr("Error::StackUnderflow")
  /\ machine.stack = Pre.stack


\* ------------------------------------------------------------------ C21
\* The records of the last apply call that name the address, the account
\* the state holds for it, and the storage a Modify record j writes on an
\* empty map: the last word of every index whose last word is not zero.
Naming(address) == {j \in 1..Len(Values) : Values[j].address = address}

AccountOf(state, address) ==
  IF address \in DOMAIN state THEN Some(state[address]) ELSE None

Written(j) ==
  LET kept == {index \in {Values[j].storage[n].index : n \in 1..Len(Values[j].storage)} :
                 LastValue(j, index) # H256_default}
  IN  [index \in kept |-> LastValue(j, index)]

\* The last two records naming the address are a Delete and then a Modify
\* that carries no code.
DeletedThenModified(address, j, k) ==
  /\ j \in Naming(address) /\ k \in Naming(address)
  /\ j < k /\ k = Last(Naming(address)) /\ j = Last(Naming(address) \ {k})
  /\ Values[j].kind = "Delete"
  /\ Values[k].kind = "Modify" /\ ~Values[k].code.some

Recreated(k) ==
  [nonce |-> Values[k].basic.nonce, balance |-> Values[k].basic.balance,
   storage |-> Written(k), code |-> <<>>]

\* What apply leaves alone: an account no record names, the vicinity, and
\* the logs it found, which the logs of the call follow in their order.
ApplyTouchesOnlyNamed ==
  /\ \A address \in Addresses \cup DOMAIN called.pre.state \cup DOMAIN backend.state :
       Naming(address) = {} =>
         AccountOf(backend.state, address) = AccountOf(called.pre.state, address)
  /\ backend.vicinity = called.pre.vicinity
  /\ backend.logs = called.pre.logs \o called.args.logs

====
